---- MODULE Spec2Model ----
(***************************************************************************)
(* Model of the cdnjs KV publishing pipeline (package kv):                 *)
(*   - encodeAndWriteKVBulk   (src/kv/kv.go)      the bulk batcher/writer  *)
(*   - getFileWriteRequests   (src/kv/files.go)   per-file write requests  *)
(*   - updateKVFiles, InsertNewVersionToKV, UpdateKVVersion                *)
(*   - InsertFromDisk         (src/unnamed/part_000) the worker pool       *)
(*                                                                         *)
(* Byte strings are modelled by their length and their origin (raw file    *)
(* bytes, brotli output, gzip output, JSON), file paths and keys by the    *)
(* sequence of their dot-separated components, so that appending ".br" to  *)
(* "a.js" yields the same string as the path of a file named "a.js.br".    *)
(***************************************************************************)
EXTENDS Naturals, Sequences, FiniteSets, TLC

VARIABLES
    \* ---- encodeAndWriteKVBulk (one call in progress) -------------------
    bpc,         \* position: "idle", "loop", "write", "ret"
    kvs,         \* the []*writeRequest argument
    namespaceID, \* the namespace argument
    idx,         \* index of the next request of `for _, kv := range kvs`
    bulkWrites,  \* var bulkWrites []WorkersKVBulkWriteRequest
    bulkWrite,   \* var bulkWrite []*WorkersKVPair
    totalSize,   \* running encoded bytes of bulkWrite
    totalKeys,   \* running entry count of bulkWrite
    wi,          \* index of the next batch of `for i, b := range bulkWrites`
    berr,        \* the call's return value ("nil" or an error)
    debugLog,    \* keys reported by util.Debugf "ignoring oversized ..."
    apiCalls,    \* every api.WriteWorkersKVBulk call issued, in order
    \* ---- InsertNewVersionToKV (one publish in progress) ----------------
    ppc,         \* position of the publish
    disk,        \* the files ListFilesInVersion finds in the version dir
    fromVersionPaths, \* the local variable of InsertNewVersionToKV
    perr,        \* the publish's return value
    \* ---- InsertFromDisk -------------------------------------------------
    pckgs,       \* the package names argument
    jobs,        \* the buffered channel of uploadWork
    jobsClosed,  \* close(jobs) has run
    doneClosed,  \* close(done) has run
    mpc,         \* the main routine's position
    mq,          \* index of `for index, name := range pckgs`
    mi,          \* the collector's loop counter i
    totals,      \* <<totalSRIKeys, totalFileKeys>>
    wpc,         \* each worker's position
    wjob,        \* each worker's uploadWork j
    wver,        \* each worker's index into versions
    wtot,        \* each worker's <<pckgTotalSRIKeys, pckgTotalFileKeys>>
    inserts,     \* history, per job: the InsertNewVersionToKV calls made
    reported,    \* history, per job: results received by the collector
    completed,   \* history, per job: the uploadResults the collector received
    failed,      \* history, per job: the failure logged for it (util.Infof, sentry)
    crashed,     \* an unrecovered panic has ended the process
    \* ---- updateKVFiles with SRIs (part_001), one call in progress --------
    upc,         \* position of the call
    srisOnly,    \* the four mode arguments
    filesOnly,
    noPush,
    panicOversized,
    sriReqs,     \* the SRI requests built
    fileReqs,    \* the file requests built
    theoreticalSRIsKeys,
    theoreticalFilesKeys,
    successfulSRIWrites,
    uret,        \* the five values the call returns
    \* ---- InsertAggregateMetadataFromScratch, one package ----------------
    apc,         \* position of the package's routine
    kvPackages,  \* packages namespace: whether the package has an entry
    kvVersions,  \* versions namespace: key -> the manifest stored under it
    versions,    \* the version keys GetVersions listed
    vj,          \* index of `for j, version := range versions`
    assets,      \* var assets []packages.Asset
    run,         \* the number of the rebuild in progress
    aggLog,      \* the failure messages logged (util.Infof, sentry)
    aggCrashed,  \* util.Check or a panic has ended the process
    \* ---- ReadNonHumanJSONBytes -------------------------------------------
    rpc,         \* position of the call
    doc,         \* the bytes handed in, by what they hold
    rret,        \* the two values the call returns
    \* ---- InsertAggregateMetadataFromScratch, the routines ----------------
    scratchPckgs, \* the package names handed in
    spc,          \* position of the main routine
    si,           \* index of `for index, name := range pckgs`
    wg,           \* the counter of the sync.WaitGroup
    gpc,          \* position of each package's routine
    gpanic,       \* whether the routine is panicking
    glookup,      \* how the routine's GetPackage went
    gsent,        \* how often the routine has sent on done
    cpc,          \* position of the progress routine
    ci,           \* its loop counter
    received,     \* the names it has received, in order
    scrashed      \* a panic has ended the process

bulkVars == <<bpc, kvs, namespaceID, idx, bulkWrites, bulkWrite, totalSize,
              totalKeys, wi, berr, debugLog, apiCalls>>
pubVars == <<ppc, disk, fromVersionPaths, perr>>
diskVars == <<pckgs, jobs, jobsClosed, doneClosed, mpc, mq, mi, totals,
              wpc, wjob, wver, wtot, inserts, reported, completed, failed,
              crashed>>
kvfVars == <<upc, srisOnly, filesOnly, noPush, panicOversized, sriReqs, fileReqs,
             theoreticalSRIsKeys, theoreticalFilesKeys, successfulSRIWrites, uret>>
aggVars == <<apc, kvPackages, kvVersions, versions, vj, assets, run, aggLog,
             aggCrashed>>
parseVars == <<rpc, doc, rret>>
scratchVars == <<scratchPckgs, spc, si, wg, gpc, gpanic, glookup, gsent, cpc,
                 ci, received, scrashed>>
vars == <<bulkVars, pubVars, diskVars, kvfVars, aggVars, parseVars, scratchVars>>

-----------------------------------------------------------------------------
(* Bounds of the model. *)

\* longest request list handed to encodeAndWriteKVBulk directly
MaxReqs == 3

(* The backend limits of package util (util.MaxFileSize, util.MaxMetadataSize,
   util.MaxBulkWritePayload, util.MaxBulkKeys).  The package is not part of
   the sources at hand; the values are scaled down and keep the order of the
   real limits: a value of MaxFileSize bytes, base64-encoded, together with
   MaxMetadataSize bytes of metadata fits one bulk payload. *)
MaxFileSize == 6
MaxMetadataSize == 2
MaxBulkWritePayload == 12
MaxBulkKeys == 2

filesNamespaceID == "files"
versionsNamespaceID == "versions"
srisNamespaceID == "sris"
aggregatedMetadataNamespaceID == "aggregated"

Nil == "nil"

-----------------------------------------------------------------------------
(* kv.go: the key-value client and the bulk writer. *)

\* len(base64.StdEncoding.EncodeToString(b)) for len(b) = n: padded, 4 bytes
\* for every started group of 3.
encodeToBase64Len(n) == 4 * ((n + 2) \div 3)

\* A cloudflare.Response together with the call's error.
Responses == { [err |-> e, Success |-> s] : e \in {Nil, "neterr"}, s \in BOOLEAN }

\* (variant: only the call's error is looked at, not the response)
checkSuccessErrOnly(r) == r.err

checkSuccess(r) ==
    IF r.err # Nil THEN r.err
    ELSE IF ~r.Success THEN "kv fail"
    ELSE Nil

\* (variant: the cap applied to the base64 length instead of the raw length)
OversizedFileEncoded(kv) == encodeToBase64Len(kv.value.len) > MaxFileSize

\* kv.go:74  unencodedSize > util.MaxFileSize
OversizedFile(kv) == kv.value.len > MaxFileSize

\* kv.go:88-95  kv.meta != nil && metasize > util.MaxMetadataSize
\* (meta = 0 stands for a nil *FileMetadata, any other number for the length
\* of its JSON; json.Marshal cannot fail on a struct of two strings)
OversizedMeta(kv) == kv.meta # 0 /\ kv.meta > MaxMetadataSize

\* kv.go:82,102  size of the pair: encoded value plus metadata when present
PairSize(kv) == encodeToBase64Len(kv.value.len) + kv.meta

\* kv.go:83-87,101  the WorkersKVPair built for a request
WritePair(kv) ==
    [Key |-> kv.key, Value |-> kv.value, Base64 |-> TRUE, Metadata |-> kv.meta]

\* (variant: the key count compared one entry too late)
OverLimitLate(tSize, size, tKeys) ==
    tSize + size > MaxBulkWritePayload \/ tKeys > MaxBulkKeys

\* kv.go:104  the running batch is closed before this pair is added
OverLimit(tSize, size, tKeys) ==
    tSize + size > MaxBulkWritePayload \/ tKeys = MaxBulkKeys

\* (variant: the pair that found the batch full is not put into the new one)
BulkLoopLosePair ==
    /\ bpc = "loop"
    /\ idx <= Len(kvs)
    /\ LET kv == kvs[idx]
           size == PairSize(kv)
       IN  IF OversizedFile(kv) \/ OversizedMeta(kv)
           THEN /\ debugLog' = Append(debugLog, kv.key)
                /\ UNCHANGED <<bulkWrites, bulkWrite, totalSize, totalKeys>>
           ELSE /\ IF OverLimit(totalSize, size, totalKeys)
                   THEN /\ bulkWrites' = Append(bulkWrites, bulkWrite)
                        /\ bulkWrite' = <<>>
                        /\ totalSize' = 0
                        /\ totalKeys' = 0
                   ELSE /\ bulkWrite' = Append(bulkWrite, WritePair(kv))
                        /\ totalSize' = totalSize + size
                        /\ totalKeys' = totalKeys + 1
                        /\ UNCHANGED bulkWrites
                /\ UNCHANGED debugLog
    /\ idx' = idx + 1
    /\ UNCHANGED <<bpc, kvs, namespaceID, wi, berr, apiCalls>>

\* kv.go:73-114  one iteration of `for _, kv := range kvs`
BulkLoop ==
    /\ bpc = "loop"
    /\ idx <= Len(kvs)
    /\ LET kv == kvs[idx]
           size == PairSize(kv)
       IN  IF OversizedFile(kv) \/ OversizedMeta(kv)
           THEN /\ debugLog' = Append(debugLog, kv.key)
                /\ UNCHANGED <<bulkWrites, bulkWrite, totalSize, totalKeys>>
           ELSE /\ IF OverLimit(totalSize, size, totalKeys)
                   THEN /\ bulkWrites' = Append(bulkWrites, bulkWrite)
                        /\ bulkWrite' = <<WritePair(kv)>>
                        /\ totalSize' = size
                        /\ totalKeys' = 1
                   ELSE /\ bulkWrite' = Append(bulkWrite, WritePair(kv))
                        /\ totalSize' = totalSize + size
                        /\ totalKeys' = totalKeys + 1
                        /\ UNCHANGED bulkWrites
                /\ UNCHANGED debugLog
    /\ idx' = idx + 1
    /\ UNCHANGED <<bpc, kvs, namespaceID, wi, berr, apiCalls>>

\* kv.go:115  bulkWrites = append(bulkWrites, bulkWrite)
BulkLoopEnd ==
    /\ bpc = "loop"
    /\ idx > Len(kvs)
    /\ bulkWrites' = Append(bulkWrites, bulkWrite)
    /\ bpc' = "write"
    /\ wi' = 1
    /\ UNCHANGED <<kvs, namespaceID, idx, bulkWrite, totalSize, totalKeys,
                   berr, debugLog, apiCalls>>

\* (variant: a failed batch is noted and the loop goes on to the next one)
BulkWriteContinue ==
    /\ bpc = "write"
    /\ wi <= Len(bulkWrites)
    /\ \E r \in Responses :
        /\ apiCalls' = Append(apiCalls,
               [ns |-> namespaceID, b |-> bulkWrites[wi], r |-> r,
                err |-> checkSuccess(r)])
        /\ berr' = IF checkSuccess(r) # Nil THEN checkSuccess(r) ELSE berr
        /\ wi' = wi + 1
        /\ bpc' = IF wi = Len(bulkWrites) /\ berr' # Nil THEN "ret" ELSE bpc
    /\ UNCHANGED <<kvs, namespaceID, idx, bulkWrites, bulkWrite, totalSize,
                   totalKeys, debugLog>>

\* kv.go:117-123  one iteration of `for i, b := range bulkWrites`; every call
\* is recorded with the response r and the error err the API returned
BulkWrite ==
    /\ bpc = "write"
    /\ wi <= Len(bulkWrites)
    /\ \E r \in Responses :
        /\ apiCalls' = Append(apiCalls,
               [ns |-> namespaceID, b |-> bulkWrites[wi], r |-> r,
                err |-> checkSuccess(r)])
        /\ IF checkSuccess(r) # Nil
           THEN /\ berr' = checkSuccess(r)
                /\ bpc' = "ret"
                /\ UNCHANGED wi
           ELSE /\ wi' = wi + 1
                /\ UNCHANGED <<berr, bpc>>
    /\ UNCHANGED <<kvs, namespaceID, idx, bulkWrites, bulkWrite, totalSize,
                   totalKeys, debugLog>>

\* kv.go:125  return nil
BulkReturn ==
    /\ bpc = "write"
    /\ wi > Len(bulkWrites)
    /\ berr' = Nil
    /\ bpc' = "ret"
    /\ UNCHANGED <<kvs, namespaceID, idx, bulkWrites, bulkWrite, totalSize,
                   totalKeys, wi, debugLog, apiCalls>>

\* kv.go:68-71  entry of encodeAndWriteKVBulk(ctx, reqs, ns)
BulkCall(reqs, ns) ==
    /\ bpc' = "loop"
    /\ kvs' = reqs
    /\ namespaceID' = ns
    /\ idx' = 1
    /\ bulkWrites' = <<>>
    /\ bulkWrite' = <<>>
    /\ totalSize' = 0
    /\ totalKeys' = 0
    /\ wi' = 0
    /\ berr' = Nil
    /\ UNCHANGED <<debugLog, apiCalls>>

BulkIdle ==
    /\ bpc = "idle" /\ kvs = <<>> /\ namespaceID = "" /\ idx = 0
    /\ bulkWrites = <<>> /\ bulkWrite = <<>> /\ totalSize = 0 /\ totalKeys = 0
    /\ wi = 0 /\ berr = Nil /\ debugLog = <<>> /\ apiCalls = <<>>

\* The names of the requests a call put into its batches, in order: the list
\* updateKVFiles hands back as "all files pushed to KV" (files.go:108,117).
\* The variant of encodeAndWriteKVBulk that returns it is not in the sources.
successfulWrites(reqs) ==
    LET kept == SelectSeq(reqs, LAMBDA kv : ~OversizedFile(kv) /\ ~OversizedMeta(kv))
    IN  [i \in 1..Len(kept) |-> kept[i].name]

-----------------------------------------------------------------------------
(* files.go: the write requests of one version's files. *)

ignored == {".br", ".gz"}
doNotCompress == {".woff2"}

\* path.Ext: the suffix from the final dot of the path, "" when there is none.
\* A path is the sequence of its pieces, every piece but the first starting
\* with a dot.
Ext(p) == IF Len(p) > 1 THEN p[Len(p)] ELSE ""

\* the strings pkg and version of the publish, and path.Join(pkg, version)
pkg == "p"
version == "1.0"
baseVersionPath == <<pkg, "/", version>>

\* path.Join(a, b) for clean, relative b
Join(a, b) == a \o <<"/">> \o b

\* length of the JSON of a FileMetadata{ETag, LastModified} (files.go:64-73):
\* two short strings, always within util.MaxMetadataSize
FileMetaLen == 1

\* one writeRequest of files.go:77-82, 87-92, 95-100
Request(k, n, e, f, l) ==
    [key |-> k, name |-> n, value |-> [enc |-> e, of |-> f.path, len |-> l],
     meta |-> FileMetaLen]

\* (variant: the uncompressed file is inserted for every class)
FileRequestsWithRaw(f) ==
    LET baseFileKey == Join(baseVersionPath, f.path)
    IN  IF Ext(f.path) \in doNotCompress
        THEN << Request(baseFileKey, f.path, "raw", f, f.raw) >>
        ELSE << Request(baseFileKey, f.path, "raw", f, f.raw),
                Request(Append(baseFileKey, ".br"), Append(f.path, ".br"), "br", f, f.br),
                Request(Append(baseFileKey, ".gz"), Append(f.path, ".gz"), "gz", f, f.gz) >>

\* (variant: no class is exempt from compression)
FileRequestsCompressAll(f) ==
    LET baseFileKey == Join(baseVersionPath, f.path)
    IN  << Request(Append(baseFileKey, ".br"), Append(f.path, ".br"), "br", f, f.br),
           Request(Append(baseFileKey, ".gz"), Append(f.path, ".gz"), "gz", f, f.gz) >>

\* (variant: the name of a compressed entry is the file's own name)
FileRequestsPlainName(f) ==
    LET baseFileKey == Join(baseVersionPath, f.path)
    IN  IF Ext(f.path) \in doNotCompress
        THEN << Request(baseFileKey, f.path, "raw", f, f.raw) >>
        ELSE << Request(Append(baseFileKey, ".br"), f.path, "br", f, f.br),
                Request(Append(baseFileKey, ".gz"), f.path, "gz", f, f.gz) >>

\* (variant: the gzip entry is keyed like the brotli entry)
FileRequestsSameSuffix(f) ==
    LET baseFileKey == Join(baseVersionPath, f.path)
    IN  IF Ext(f.path) \in doNotCompress
        THEN << Request(baseFileKey, f.path, "raw", f, f.raw) >>
        ELSE << Request(Append(baseFileKey, ".br"), Append(f.path, ".br"), "br", f, f.br),
                Request(Append(baseFileKey, ".br"), Append(f.path, ".gz"), "gz", f, f.gz) >>

\* files.go:75-100  the requests of one file that is not ignored; f.raw, f.br
\* and f.gz are the lengths of the file and of what compress.Brotli11CLI and
\* compress.Gzip9Native make of it.
FileRequests(f) ==
    LET baseFileKey == Join(baseVersionPath, f.path)
    IN  IF Ext(f.path) \in doNotCompress
        THEN << Request(baseFileKey, f.path, "raw", f, f.raw) >>
        ELSE << Request(Append(baseFileKey, ".br"), Append(f.path, ".br"), "br", f, f.br),
                Request(Append(baseFileKey, ".gz"), Append(f.path, ".gz"), "gz", f, f.gz) >>

\* (variant: no extension is ignored)
RECURSIVE getFileWriteRequestsNoIgnore(_, _, _)
getFileWriteRequestsNoIgnore(files, i, acc) ==
    IF i > Len(files) THEN [kvs |-> acc, err |-> Nil]
    ELSE IF ~files[i].ok THEN [kvs |-> acc, err |-> "ioerr"]
    ELSE getFileWriteRequestsNoIgnore(files, i + 1, acc \o FileRequests(files[i]))

\* (variant: a file that cannot be read is passed over)
RECURSIVE getFileWriteRequestsSkipUnreadable(_, _, _)
getFileWriteRequestsSkipUnreadable(files, i, acc) ==
    IF i > Len(files) THEN [kvs |-> acc, err |-> Nil]
    ELSE IF Ext(files[i].path) \in ignored \/ ~files[i].ok
         THEN getFileWriteRequestsSkipUnreadable(files, i + 1, acc)
    ELSE getFileWriteRequestsSkipUnreadable(files, i + 1, acc \o FileRequests(files[i]))

\* files.go:39-104  getFileWriteRequests from the i-th file on: [kvs, err];
\* files[i].ok is whether os.Stat and ioutil.ReadFile succeed on the file.
RECURSIVE getFileWriteRequestsFrom(_, _, _)
getFileWriteRequestsFrom(files, i, acc) ==
    IF i > Len(files) THEN [kvs |-> acc, err |-> Nil]
    ELSE IF Ext(files[i].path) \in ignored
         THEN getFileWriteRequestsFrom(files, i + 1, acc)
    ELSE IF ~files[i].ok THEN [kvs |-> acc, err |-> "ioerr"]
    ELSE getFileWriteRequestsFrom(files, i + 1, acc \o FileRequests(files[i]))

getFileWriteRequests(files) == getFileWriteRequestsFrom(files, 1, <<>>)

\* (variant: stylesheets are left out)
calculateSRIScriptsOnly == {".js"}

\* part_001:29-32  we calculate SRIs for these file extensions
calculateSRI == {".js", ".css"}

\* length of the JSON of a FileMetadata{SRI} (part_001:74-76)
SRIMetaLen == 1

\* part_001:45-124  the getFileWriteRequests that also builds the SRI
\* requests, from the i-th file on: [sriKVs, fileKVs, err]
RECURSIVE getFileWriteRequestsSRIFrom(_, _, _, _, _)
getFileWriteRequestsSRIFrom(files, sOnly, i, sriAcc, fileAcc) ==
    IF i > Len(files) THEN [sriKVs |-> sriAcc, fileKVs |-> fileAcc, err |-> Nil]
    ELSE IF Ext(files[i].path) \in ignored
         THEN getFileWriteRequestsSRIFrom(files, sOnly, i + 1, sriAcc, fileAcc)
    ELSE IF ~files[i].ok THEN [sriKVs |-> <<>>, fileKVs |-> <<>>, err |-> "ioerr"]
    ELSE LET f == files[i]
             sri == IF Ext(f.path) \in calculateSRI
                    THEN << [key |-> Join(baseVersionPath, f.path), name |-> f.path,
                             value |-> [enc |-> "none", of |-> f.path, len |-> 0],
                             meta |-> SRIMetaLen] >>
                    ELSE <<>>
         IN  getFileWriteRequestsSRIFrom(files, sOnly, i + 1, sriAcc \o sri,
                 IF sOnly THEN fileAcc ELSE fileAcc \o FileRequests(f))

getFileWriteRequestsSRI(files, sOnly) ==
    getFileWriteRequestsSRIFrom(files, sOnly, 1, <<>>, <<>>)

-----------------------------------------------------------------------------
(* versions.go: the version manifest. *)

\* len(json.Marshal(files)) for a []string, scaled: brackets and one unit a name
jsonLen(files) == 1 + Len(files)

\* versions.go:32-42
updateVersionRequest(files) ==
    [key |-> baseVersionPath, name |-> baseVersionPath,
     value |-> [enc |-> "json", of |-> files, len |-> jsonLen(files)],
     meta |-> 0]

-----------------------------------------------------------------------------
(* kv.go:140-154  InsertNewVersionToKV, with updateKVFiles (files.go:109-118)
   and UpdateKVVersion (versions.go:46-50) inlined at their call sites. *)

\* The file of the version directory with path p.
DiskFile(p) == CHOOSE f \in {disk[i] : i \in 1..Len(disk)} : f.path = p

\* kv.go:141-144  util.ListFilesInVersion, which may fail
ListFiles ==
    /\ ppc = "list"
    /\ \/ /\ fromVersionPaths' = [i \in 1..Len(disk) |-> disk[i].path]
          /\ ppc' = "files"
          /\ UNCHANGED perr
       \/ /\ perr' = "listerr"
          /\ ppc' = "done"
          /\ UNCHANGED fromVersionPaths
    /\ UNCHANGED <<disk, bulkVars, diskVars, kvfVars, aggVars, parseVars, scratchVars>>

\* after a failed updateKVFiles: kv.go:148-150
FilesFailed(e) ==
    /\ perr' = e
    /\ ppc' = "done"
    /\ UNCHANGED fromVersionPaths

\* kv.go:147, files.go:111-117  updateKVFiles up to the bulk call
UpdateKVFilesCall ==
    /\ ppc = "files"
    /\ LET r == getFileWriteRequests([i \in 1..Len(fromVersionPaths) |->
                                         DiskFile(fromVersionPaths[i])])
       IN  IF r.err # Nil
           THEN /\ FilesFailed(r.err)
                /\ UNCHANGED bulkVars
           ELSE /\ BulkCall(r.kvs, filesNamespaceID)
                /\ ppc' = "filesWait"
                /\ UNCHANGED <<fromVersionPaths, perr>>
    /\ UNCHANGED <<disk, diskVars, kvfVars, aggVars, parseVars, scratchVars>>

\* (variant: the error of the file batches is not looked at)
UpdateKVFilesReturnAnyway ==
    /\ ppc = "filesWait"
    /\ bpc = "ret"
    /\ fromVersionPaths' = successfulWrites(kvs)
    /\ ppc' = "version"
    /\ UNCHANGED <<perr, disk, bulkVars, diskVars, kvfVars, aggVars, parseVars, scratchVars>>

\* files.go:117, kv.go:147-150  the bulk call returns to InsertNewVersionToKV
UpdateKVFilesReturn ==
    /\ ppc = "filesWait"
    /\ bpc = "ret"
    /\ IF berr # Nil
       THEN FilesFailed(berr)
       ELSE /\ fromVersionPaths' = successfulWrites(kvs)
            /\ ppc' = "version"
            /\ UNCHANGED perr
    /\ UNCHANGED <<disk, bulkVars, diskVars, kvfVars, aggVars, parseVars, scratchVars>>

\* kv.go:153, versions.go:46-48  the manifest goes through the bulk writer
UpdateKVVersionCall ==
    /\ ppc = "version"
    /\ BulkCall(<<updateVersionRequest(fromVersionPaths)>>, versionsNamespaceID)
    /\ ppc' = "versionWait"
    /\ UNCHANGED <<disk, fromVersionPaths, perr, diskVars, kvfVars, aggVars, parseVars, scratchVars>>

\* versions.go:49, kv.go:153  return err
UpdateKVVersionReturn ==
    /\ ppc = "versionWait"
    /\ bpc = "ret"
    /\ perr' = berr
    /\ ppc' = "done"
    /\ UNCHANGED <<disk, fromVersionPaths, bulkVars, diskVars, kvfVars, aggVars, parseVars, scratchVars>>

PubIdle == ppc = "idle" /\ disk = <<>> /\ fromVersionPaths = <<>> /\ perr = Nil

-----------------------------------------------------------------------------
(* part_001:129-164  the updateKVFiles that also writes the SRIs, under the
   modes srisOnly, filesOnly, noPush and panicOversized.  Its bulk writes go
   through encodeAndWriteKVBulk; the variant of it that takes panicOversized
   and returns the names it wrote is not in the sources. *)

\* the five values updateKVFiles returns
Returns(sris, files, nSRI, nFiles, e) ==
    [successfulSRIWrites |-> sris, successfulFileWrites |-> files,
     theoreticalSRIsKeys |-> nSRI, theoreticalFilesKeys |-> nFiles, err |-> e]

NoReturn == Returns(<<>>, <<>>, 0, 0, Nil)

\* part_001:138-145  the file requests whose value is over util.MaxFileSize
OversizedRequests(reqs) == {i \in 1..Len(reqs) : reqs[i].value.len > MaxFileSize}

\* strict mode of the bulk writer: with panicOversized an oversized value
\* ends the process instead of being dropped
BulkPanics(reqs) == panicOversized /\ OversizedRequests(reqs) # {}

\* what the bulk writer hands back: the names of the requests in the batches
\* it has written, in order
successfulWritesSoFar ==
    LET written == {i \in 1..Len(apiCalls) :
                       apiCalls[i].ns = namespaceID /\ apiCalls[i].err = Nil}
        kept == SelectSeq(kvs, LAMBDA kv :
                    \E i \in written : \E k \in 1..Len(apiCalls[i].b) :
                        apiCalls[i].b[k].Key = kv.key)
    IN  [i \in 1..Len(kept) |-> kept[i].name]

\* part_001:131-135  the requests are built and counted
KVFBuild ==
    /\ upc = "start"
    /\ LET r == getFileWriteRequestsSRI([i \in 1..Len(fromVersionPaths) |->
                                            DiskFile(fromVersionPaths[i])], srisOnly)
       IN  IF r.err # Nil
           THEN /\ uret' = Returns(<<>>, <<>>, 0, 0, r.err)
                /\ upc' = "ret"
                /\ UNCHANGED <<sriReqs, fileReqs, theoreticalSRIsKeys,
                               theoreticalFilesKeys>>
           ELSE /\ sriReqs' = r.sriKVs
                /\ fileReqs' = r.fileKVs
                /\ theoreticalSRIsKeys' = Len(r.sriKVs)
                /\ theoreticalFilesKeys' = Len(r.fileKVs)
                /\ upc' = "built"
                /\ UNCHANGED uret
    /\ UNCHANGED <<srisOnly, filesOnly, noPush, panicOversized,
                   successfulSRIWrites, bulkVars, pubVars, diskVars, aggVars, parseVars, scratchVars>>

\* (variant: noPush is not looked at)
KVFAfterBuildPush ==
    /\ upc = "built"
    /\ IF ~filesOnly
       THEN /\ BulkCall(sriReqs, srisNamespaceID)
            /\ upc' = "sriWait"
       ELSE /\ upc' = "files"
            /\ UNCHANGED bulkVars
    /\ UNCHANGED <<srisOnly, filesOnly, noPush, panicOversized, sriReqs, fileReqs,
                   theoreticalSRIsKeys, theoreticalFilesKeys,
                   successfulSRIWrites, uret, pubVars, diskVars, aggVars, parseVars, scratchVars>>

\* part_001:137-153  noPush returns the counts and writes nothing (a panic
\* on an oversized file request under panicOversized); otherwise the SRIs
\* are written unless filesOnly
KVFAfterBuild ==
    /\ upc = "built"
    /\ IF noPush
       THEN /\ IF panicOversized /\ OversizedRequests(fileReqs) # {}
               THEN upc' = "panic" /\ UNCHANGED uret
               ELSE /\ uret' = Returns(<<>>, <<>>, theoreticalSRIsKeys,
                                       theoreticalFilesKeys, Nil)
                    /\ upc' = "ret"
            /\ UNCHANGED bulkVars
       ELSE IF ~filesOnly
       THEN /\ BulkCall(sriReqs, srisNamespaceID)
            /\ upc' = "sriWait"
            /\ UNCHANGED uret
       ELSE /\ upc' = "files"
            /\ UNCHANGED <<uret, bulkVars>>
    /\ UNCHANGED <<srisOnly, filesOnly, noPush, panicOversized, sriReqs, fileReqs,
                   theoreticalSRIsKeys, theoreticalFilesKeys,
                   successfulSRIWrites, pubVars, diskVars, aggVars, parseVars, scratchVars>>

\* (variant: the error of the SRI bulk write is not looked at)
KVFSRIsReturnAnyway ==
    /\ upc = "sriWait"
    /\ bpc = "ret"
    /\ successfulSRIWrites' = successfulWritesSoFar
    /\ IF srisOnly
       THEN /\ uret' = Returns(successfulWritesSoFar, <<>>,
                               theoreticalSRIsKeys, theoreticalFilesKeys, Nil)
            /\ upc' = "ret"
       ELSE /\ upc' = "files"
            /\ UNCHANGED uret
    /\ UNCHANGED <<srisOnly, filesOnly, noPush, panicOversized, sriReqs, fileReqs,
                   theoreticalSRIsKeys, theoreticalFilesKeys,
                   bulkVars, pubVars, diskVars, aggVars, parseVars, scratchVars>>

\* part_001:153-160  the SRI bulk write returns
KVFSRIsReturn ==
    /\ upc = "sriWait"
    /\ bpc = "ret"
    /\ IF berr # Nil
       THEN /\ uret' = Returns(<<>>, <<>>, 0, 0, berr)
            /\ upc' = "ret"
            /\ UNCHANGED successfulSRIWrites
       ELSE /\ successfulSRIWrites' = successfulWritesSoFar
            /\ IF srisOnly
               THEN /\ uret' = Returns(successfulWritesSoFar, <<>>,
                                       theoreticalSRIsKeys, theoreticalFilesKeys, Nil)
                    /\ upc' = "ret"
               ELSE /\ upc' = "files"
                    /\ UNCHANGED uret
    /\ UNCHANGED <<srisOnly, filesOnly, noPush, panicOversized, sriReqs, fileReqs,
                   theoreticalSRIsKeys, theoreticalFilesKeys,
                   bulkVars, pubVars, diskVars, aggVars, parseVars, scratchVars>>

\* part_001:162  the file bulk write is called
KVFWriteFiles ==
    /\ upc = "files"
    /\ IF BulkPanics(fileReqs)
       THEN upc' = "panic" /\ UNCHANGED bulkVars
       ELSE BulkCall(fileReqs, filesNamespaceID) /\ upc' = "fileWait"
    /\ UNCHANGED <<srisOnly, filesOnly, noPush, panicOversized, sriReqs, fileReqs,
                   theoreticalSRIsKeys, theoreticalFilesKeys,
                   successfulSRIWrites, uret, pubVars, diskVars, aggVars, parseVars, scratchVars>>

\* part_001:162-163  the file bulk write returns, and so does updateKVFiles
KVFFilesReturn ==
    /\ upc = "fileWait"
    /\ bpc = "ret"
    /\ uret' = Returns(successfulSRIWrites, successfulWritesSoFar,
                       theoreticalSRIsKeys, theoreticalFilesKeys, berr)
    /\ upc' = "ret"
    /\ UNCHANGED <<srisOnly, filesOnly, noPush, panicOversized, sriReqs, fileReqs,
                   theoreticalSRIsKeys, theoreticalFilesKeys,
                   successfulSRIWrites, bulkVars, pubVars, diskVars, aggVars, parseVars, scratchVars>>

\* the caller of updateKVFiles, InsertNewVersionToKV with the mode
\* arguments (called at part_000:47,110): it hands on what updateKVFiles
\* returned and, after a push of the files, writes the version manifest
KVFVersion ==
    /\ upc = "ret"
    /\ IF uret.err # Nil \/ noPush \/ srisOnly
       THEN upc' = "done" /\ UNCHANGED bulkVars
       ELSE /\ BulkCall(<<updateVersionRequest(uret.successfulFileWrites)>>,
                        versionsNamespaceID)
            /\ upc' = "versionWait"
    /\ UNCHANGED <<srisOnly, filesOnly, noPush, panicOversized, sriReqs, fileReqs,
                   theoreticalSRIsKeys, theoreticalFilesKeys,
                   successfulSRIWrites, uret, pubVars, diskVars, aggVars, parseVars, scratchVars>>

KVFVersionReturn ==
    /\ upc = "versionWait"
    /\ bpc = "ret"
    /\ uret' = [uret EXCEPT !.err = berr]
    /\ upc' = "done"
    /\ UNCHANGED <<srisOnly, filesOnly, noPush, panicOversized, sriReqs, fileReqs,
                   theoreticalSRIsKeys, theoreticalFilesKeys,
                   successfulSRIWrites, bulkVars, pubVars, diskVars, aggVars, parseVars, scratchVars>>

KVFIdle ==
    /\ upc = "idle" /\ srisOnly = FALSE /\ filesOnly = FALSE /\ noPush = FALSE
    /\ panicOversized = FALSE /\ sriReqs = <<>> /\ fileReqs = <<>>
    /\ theoreticalSRIsKeys = 0 /\ theoreticalFilesKeys = 0
    /\ successfulSRIWrites = <<>> /\ uret = NoReturn

-----------------------------------------------------------------------------
(* part_000:153-195  InsertAggregateMetadataFromScratch, the routine of one
   package.  GetPackage, writeAggregatedMetadata and util.Check are not in
   the sources; util.Check(err) is taken to end the process on an error. *)

pckgName == "p"

\* most versions of the package in the store
MaxAggVersions == 2

\* the number of times the tool is run
MaxRuns == 2

\* the keys of the versions namespace in the order a listing returns them
\* (lexicographic); the last one belongs to another package
VersionKeys ==
    [i \in 1..MaxAggVersions + 1 |->
        IF i <= MaxAggVersions THEN <<pckgName, "/", i>> ELSE <<"pp", "/", 1>>]

HasPrefix(s, prefix) ==
    Len(s) >= Len(prefix) /\ SubSeq(s, 1, Len(prefix)) = prefix

\* strings.TrimPrefix
TrimPrefix(s, prefix) ==
    IF HasPrefix(s, prefix) THEN SubSeq(s, Len(prefix) + 1, Len(s)) ELSE s

\* versions.go:13-16  listByPrefixNamesOnly(pckgname+"/", versionsNamespaceID)
GetVersions(name) ==
    SelectSeq(VersionKeys,
              LAMBDA k : k \in DOMAIN kvVersions /\ HasPrefix(k, <<name, "/">>))

\* versions.go:24-26  json.Unmarshal(bytes, &assets) fails on what is not
\* the JSON of a list
UnmarshalFails(bytes) == bytes.enc # "json"

\* part_000:180-183  the asset of one version
NewAsset(key, files) ==
    [Version |-> TrimPrefix(key, <<pckgName, "/">>), Files |-> files]

\* len(json.Marshal(pckg)), scaled like jsonLen: one unit for the package's
\* own fields, one a version and one a file name
RECURSIVE aggJsonLen(_)
aggJsonLen(as) ==
    IF as = <<>> THEN 1
    ELSE 1 + Len(as[Len(as)].Files) + aggJsonLen(SubSeq(as, 1, Len(as) - 1))

\* the length gzip leaves of n bytes of JSON, scaled: a quarter is saved
GzipLen(n) == n - (n \div 4)

\* the request writeAggregatedMetadata builds: the gzipped JSON of the
\* package with its assets, under the package's name
aggregateRequest(as) ==
    [key |-> <<pckgName>>, name |-> <<pckgName>>,
     value |-> [enc |-> "gz",
                of |-> [enc |-> "json",
                        of |-> [Name |-> pckgName, Assets |-> as]],
                len |-> GzipLen(aggJsonLen(as))],
     meta |-> 0]

\* (variant: an oversized aggregate is left to the bulk writer, which drops it)
AggregatePanicsNever(req) == FALSE

\* writeAggregatedMetadata writes in the strict mode (as versions.go:48
\* does): an oversized value ends the process instead of being dropped
AggregatePanics(req) == OversizedFile(req)

AggCrash(why) ==
    /\ apc' = "crashed"
    /\ aggCrashed' = why

\* part_000:166-171  GetPackage; on an error the failure is logged and the
\* routine returns
AggGetPackage ==
    /\ apc = "start"
    /\ \E ok \in BOOLEAN :
          IF kvPackages /\ ok
          THEN apc' = "versions" /\ UNCHANGED aggLog
          ELSE /\ aggLog' = Append(aggLog, "failed to get package")
               /\ apc' = "done"
    /\ UNCHANGED <<kvPackages, kvVersions, versions, vj, assets, run,
                   aggCrashed, bulkVars, pubVars, diskVars, kvfVars, parseVars, scratchVars>>

\* (variant: the assets are not started afresh, those of the last rebuild
\* are added to)
AggGetVersionsKeepAssets ==
    /\ apc = "versions"
    /\ \E ok \in BOOLEAN :
          IF ok
          THEN /\ versions' = GetVersions(pckgName)
               /\ vj' = 1
               /\ apc' = "fetch"
               /\ UNCHANGED <<assets, aggCrashed>>
          ELSE /\ AggCrash("check")
               /\ UNCHANGED <<versions, vj, assets>>
    /\ UNCHANGED <<kvPackages, kvVersions, run, aggLog, bulkVars, pubVars,
                   diskVars, kvfVars, parseVars, scratchVars>>

\* part_000:173-176  GetVersions, util.Check(err), var assets
AggGetVersions ==
    /\ apc = "versions"
    /\ \E ok \in BOOLEAN :
          IF ok
          THEN /\ versions' = GetVersions(pckgName)
               /\ vj' = 1
               /\ assets' = <<>>
               /\ apc' = "fetch"
               /\ UNCHANGED aggCrashed
          ELSE /\ AggCrash("check")
               /\ UNCHANGED <<versions, vj, assets>>
    /\ UNCHANGED <<kvPackages, kvVersions, run, aggLog, bulkVars, pubVars,
                   diskVars, kvfVars, parseVars, scratchVars>>

\* part_000:177-185  one iteration of `for j, version := range versions`:
\* GetVersion (versions.go:19-27), util.Check(err), append
AggGetVersion ==
    /\ apc = "fetch"
    /\ vj <= Len(versions)
    /\ \E ok \in BOOLEAN :
          LET bytes == kvVersions[versions[vj]]
          IN  IF ok /\ ~UnmarshalFails(bytes)
              THEN /\ assets' = Append(assets, NewAsset(versions[vj], bytes.of))
                   /\ vj' = vj + 1
                   /\ UNCHANGED <<apc, aggCrashed>>
              ELSE /\ AggCrash("check")
                   /\ UNCHANGED <<assets, vj>>
    /\ UNCHANGED <<kvPackages, kvVersions, versions, run, aggLog, bulkVars,
                   pubVars, diskVars, kvfVars, parseVars, scratchVars>>

\* part_000:187-188  pckg.Assets = assets; writeAggregatedMetadata(ctx, pckg)
AggWrite ==
    /\ apc = "fetch"
    /\ vj > Len(versions)
    /\ LET req == aggregateRequest(assets)
       IN  IF AggregatePanics(req)
           THEN AggCrash("oversized") /\ UNCHANGED bulkVars
           ELSE /\ BulkCall(<<req>>, aggregatedMetadataNamespaceID)
                /\ apc' = "writeWait"
                /\ UNCHANGED aggCrashed
    /\ UNCHANGED <<kvPackages, kvVersions, versions, vj, assets, run, aggLog,
                   pubVars, diskVars, kvfVars, parseVars, scratchVars>>

\* part_000:188-194  util.Check(err); with no successful write the failure
\* is logged; the routine returns
AggWriteReturn ==
    /\ apc = "writeWait"
    /\ bpc = "ret"
    /\ IF berr # Nil
       THEN AggCrash("check") /\ UNCHANGED aggLog
       ELSE /\ aggLog' = IF Len(successfulWritesSoFar) = 0
                         THEN Append(aggLog, "failed to write aggregated metadata")
                         ELSE aggLog
            /\ apc' = "done"
            /\ UNCHANGED aggCrashed
    /\ UNCHANGED <<kvPackages, kvVersions, versions, vj, assets, run,
                   bulkVars, pubVars, diskVars, kvfVars, parseVars, scratchVars>>

\* the tool is run again for the same package
AggRerun ==
    /\ apc = "done"
    /\ run < MaxRuns
    /\ run' = run + 1
    /\ apc' = "start"
    /\ UNCHANGED <<kvPackages, kvVersions, versions, vj, assets, aggLog,
                   aggCrashed, bulkVars, pubVars, diskVars, kvfVars, parseVars, scratchVars>>

AggIdle ==
    /\ apc = "idle" /\ kvPackages = FALSE /\ kvVersions = <<>>
    /\ versions = <<>> /\ vj = 0 /\ assets = <<>> /\ run = 0
    /\ aggLog = <<>> /\ aggCrashed = Nil

-----------------------------------------------------------------------------
(* parse.go:94-129  ReadNonHumanJSONBytes.  The bytes are modelled by what the
   steps of the function see of them: whether they are JSON, whether the
   schema accepts them, whether json.Unmarshal succeeds, and the fields
   `authors` and `author` of the package.  A string is the sequence of its
   pieces. *)

\* a string field that is absent (a nil *string)
NilField == "nil field"

\* `authors`, a slice, and `author`, a pointer to a string: absent, or set
\* to a value (an empty list is not a nil slice)
NilAuthors == [nil |-> TRUE, list |-> <<>>]
SomeAuthors(l) == [nil |-> FALSE, list |-> l]
NilAuthor == [nil |-> TRUE, str |-> <<>>]
SomeAuthor(x) == [nil |-> FALSE, str |-> x]

\* a nil *Package, and the package the bytes hold
NilPackage == [nil |-> TRUE, Authors |-> NilAuthors, Author |-> NilAuthor]
PackageOf(d) == [nil |-> FALSE, Authors |-> d.Authors, Author |-> d.Author]

\* a nil error; an error is the sequence of its messages
NoError == <<>>

\* github.com/pkg/errors Wrapf: nil for a nil error
Wrapf(e, msg) == IF e = Nil THEN NoError ELSE <<msg, e>>

\* strings.Join(a, sep)
RECURSIVE JoinStrings(_, _)
JoinStrings(a, sep) ==
    IF a = <<>> THEN <<>>
    ELSE IF Len(a) = 1 THEN a[1]
    ELSE a[1] \o <<sep>> \o JoinStrings(Tail(a), sep)

\* parse.go:137-144  the string of one author
authorString(a) ==
    <<a.Name>>
    \o (IF a.Email # NilField THEN <<" <", a.Email, ">">> ELSE <<>>)
    \o (IF a.URL # NilField THEN <<" (", a.URL, ")">> ELSE <<>>)

\* parse.go:134-148  parseAuthor
parseAuthor(authors) ==
    JoinStrings([i \in 1..Len(authors) |-> authorString(authors[i])], ",")

\* the two values ReadNonHumanJSONBytes returns
ParseResult(p, e) == [pckg |-> p, err |-> e]

\* parse.go:94-129  ReadNonHumanJSONBytes; err is the variable declared at
\* parse.go:96, the one the Wrapf of parse.go:116 is given
ReadNonHumanJSONBytes(d) ==
    LET err == IF d.json THEN Nil ELSE "invalid JSON"
        authorsNil == d.Authors.nil
        authorNil == d.Author.nil
    IN  IF err # Nil THEN ParseResult(NilPackage, Wrapf(err, "failed to parse"))
        ELSE IF ~d.valid THEN ParseResult(NilPackage, <<"InvalidSchemaError">>)
        ELSE IF ~d.unmarshals
             THEN ParseResult(NilPackage, Wrapf("unmarshal error", "failed to parse"))
        ELSE IF authorsNil # authorNil
             THEN ParseResult(NilPackage,
                      Wrapf(err, "author and authors must be either both nil or both non-nil"))
        ELSE IF ~authorsNil /\ d.Author.str # parseAuthor(d.Authors.list)
             THEN ParseResult(NilPackage, <<"author parse">>)
        ELSE ParseResult(PackageOf(d), NoError)

\* the call is made and returns
ParseCall ==
    /\ rpc = "call"
    /\ rret' = ReadNonHumanJSONBytes(doc)
    /\ rpc' = "done"
    /\ UNCHANGED <<doc, bulkVars, pubVars, diskVars, kvfVars, aggVars, scratchVars>>

ParseIdle ==
    rpc = "idle" /\ doc = NilField /\ rret = ParseResult(NilPackage, NoError)

-----------------------------------------------------------------------------
(* part_000:153-210  InsertAggregateMetadataFromScratch: one routine a
   package, a routine that receives the names they send when they end, and
   the main routine that waits for all of them.  What a package's routine
   does between the lookup and its end is the rebuild modelled above; here
   it either returns or panics. *)

Routines == 1..Len(scratchPckgs)

\* part_000:158-160  wg.Add(1); go func(i, pckgName)
Spawn ==
    /\ ~scrashed
    /\ spc = "spawn"
    /\ si < Len(scratchPckgs)
    /\ wg' = wg + 1
    /\ gpc' = [gpc EXCEPT ![si + 1] = "get"]
    /\ si' = si + 1
    /\ UNCHANGED <<scratchPckgs, spc, gpanic, glookup, gsent, cpc, ci, received, scrashed,
                   bulkVars, pubVars, diskVars, kvfVars, aggVars, parseVars>>

\* part_000:199-200  wg.Add(1); go func() of the progress routine
SpawnCollector ==
    /\ ~scrashed
    /\ spc = "spawn"
    /\ si = Len(scratchPckgs)
    /\ wg' = wg + 1
    /\ cpc' = "collect"
    /\ ci' = 0
    /\ spc' = "wait"
    /\ UNCHANGED <<scratchPckgs, si, gpc, gpanic, glookup, gsent, received, scrashed,
                   bulkVars, pubVars, diskVars, kvfVars, aggVars, parseVars>>

\* (variant: after a failed lookup the routine ends without sending)
ScratchGetPackageNoSend(g) ==
    /\ ~scrashed
    /\ gpc[g] = "get"
    /\ \E ok \in BOOLEAN :
          /\ gpc' = [gpc EXCEPT ![g] = IF ok THEN "rebuild" ELSE "wgDone"]
          /\ glookup' = [glookup EXCEPT ![g] = IF ok THEN "ok" ELSE "err"]
    /\ UNCHANGED <<scratchPckgs, spc, si, wg, gpanic, gsent, cpc, ci, received,
                   scrashed, bulkVars, pubVars, diskVars, kvfVars, aggVars,
                   parseVars>>

\* part_000:164-170  GetPackage; after a failed lookup the routine returns,
\* into its deferred functions
ScratchGetPackage(g) ==
    /\ ~scrashed
    /\ gpc[g] = "get"
    /\ \E ok \in BOOLEAN :
          /\ gpc' = [gpc EXCEPT ![g] = IF ok THEN "rebuild" ELSE "send"]
          /\ glookup' = [glookup EXCEPT ![g] = IF ok THEN "ok" ELSE "err"]
    /\ UNCHANGED <<scratchPckgs, spc, si, wg, gpanic, gsent, cpc, ci, received,
                   scrashed, bulkVars, pubVars, diskVars, kvfVars, aggVars,
                   parseVars>>

\* part_000:172-195  the rest of the routine returns, or a util.Check in it
\* panics; either way the deferred functions run next
ScratchRebuild(g) ==
    /\ ~scrashed
    /\ gpc[g] = "rebuild"
    /\ \E panics \in BOOLEAN : gpanic' = [gpanic EXCEPT ![g] = panics]
    /\ gpc' = [gpc EXCEPT ![g] = "send"]
    /\ UNCHANGED <<scratchPckgs, spc, si, wg, glookup, gsent, cpc, ci, received,
                   scrashed, bulkVars, pubVars, diskVars, kvfVars, aggVars,
                   parseVars>>

\* part_000:162,202-205  the deferred `done <- pckgName` meets the progress
\* routine's `name := <-done`: done is unbuffered, the send and the receive
\* are one step
ScratchDeliver(g) ==
    /\ ~scrashed
    /\ gpc[g] = "send"
    /\ cpc = "collect"
    /\ ci < Len(scratchPckgs)
    /\ received' = Append(received, scratchPckgs[g])
    /\ ci' = ci + 1
    /\ gsent' = [gsent EXCEPT ![g] = @ + 1]
    /\ gpc' = [gpc EXCEPT ![g] = "wgDone"]
    /\ UNCHANGED <<scratchPckgs, spc, si, wg, gpanic, glookup, cpc, scrashed,
                   bulkVars, pubVars, diskVars, kvfVars, aggVars, parseVars>>

\* part_000:161  the deferred wg.Done() of a package's routine; a panicking
\* routine goes on unwinding
ScratchDone(g) ==
    /\ ~scrashed
    /\ gpc[g] = "wgDone"
    /\ wg' = wg - 1
    /\ gpc' = [gpc EXCEPT ![g] = IF gpanic[g] THEN "panicking" ELSE "exit"]
    /\ UNCHANGED <<scratchPckgs, spc, si, gpanic, glookup, gsent, cpc, ci, received,
                   scrashed, bulkVars, pubVars, diskVars, kvfVars, aggVars,
                   parseVars>>

\* part_000:160-195  the panic of a routine, its deferred functions done,
\* ends the process
ScratchCrash(g) ==
    /\ ~scrashed
    /\ gpc[g] = "panicking"
    /\ scrashed' = TRUE
    /\ UNCHANGED <<scratchPckgs, spc, si, wg, gpc, gpanic, glookup, gsent, cpc, ci,
                   received, bulkVars, pubVars, diskVars, kvfVars,
                   aggVars, parseVars>>

\* part_000:201-206  the progress routine's loop ends; its deferred wg.Done()
CollectorDone ==
    /\ ~scrashed
    /\ cpc = "collect"
    /\ ci >= Len(scratchPckgs)
    /\ wg' = wg - 1
    /\ cpc' = "exit"
    /\ UNCHANGED <<scratchPckgs, spc, si, gpc, gpanic, glookup, gsent, ci, received,
                   scrashed, bulkVars, pubVars, diskVars, kvfVars, aggVars,
                   parseVars>>

\* part_000:208-209  wg.Wait() returns, "Done."
WaitReturns ==
    /\ ~scrashed
    /\ spc = "wait"
    /\ wg = 0
    /\ spc' = "done"
    /\ UNCHANGED <<scratchPckgs, si, wg, gpc, gpanic, glookup, gsent, cpc, ci, received,
                   scrashed, bulkVars, pubVars, diskVars, kvfVars, aggVars,
                   parseVars>>

ScratchIdle ==
    /\ scratchPckgs = <<>> /\ spc = "idle" /\ si = 0 /\ wg = 0
    /\ gpc = <<>> /\ gpanic = <<>> /\ glookup = <<>> /\ gsent = <<>>
    /\ cpc = "idle" /\ ci = 0 /\ received = <<>> /\ scrashed = FALSE

-----------------------------------------------------------------------------
(* Inputs. *)

\* the keys of the requests handed to the bulk writer directly
KeyNames == <<"k1", "k2", "k3", "k4", "k5">>

\* value lengths around the per-value cap, metadata lengths around the
\* metadata cap (0: no metadata)
ValueLens == {1, MaxFileSize, MaxFileSize + 1}
MetaLens == {0, MaxMetadataSize, MaxMetadataSize + 1}

RequestAt(i, n, m) ==
    [key |-> <<KeyNames[i]>>, name |-> <<KeyNames[i]>>,
     value |-> [enc |-> "raw", of |-> <<>>, len |-> n], meta |-> m]

RequestLists ==
    UNION { { [i \in 1..n |-> RequestAt(i, c[i][1], c[i][2])] :
                c \in [1..n -> ValueLens \X MetaLens] } : n \in 0..MaxReqs }

\* most files of a version directory
MaxFiles == 2

Paths == { <<"a", ".js">>, <<"a", ".js", ".br">>, <<"a", ".gz">>,
           <<"f", ".woff2">>, <<"LICENSE">> }

\* lengths of a file, of its brotli and of its gzip output, and whether the
\* file can be read
Profiles == { [raw |-> 1, br |-> 1, gz |-> 1, ok |-> TRUE],
              [raw |-> MaxFileSize, br |-> 1, gz |-> MaxFileSize, ok |-> TRUE],
              [raw |-> MaxFileSize + 1, br |-> 1, gz |-> MaxFileSize + 1, ok |-> TRUE],
              [raw |-> MaxFileSize + 1, br |-> MaxFileSize + 1,
               gz |-> MaxFileSize + 1, ok |-> TRUE],
              [raw |-> 1, br |-> 1, gz |-> 1, ok |-> FALSE] }

FileOf(p, s) == [path |-> p, raw |-> s.raw, br |-> s.br, gz |-> s.gz, ok |-> s.ok]

\* version directories: files of pairwise distinct paths
Disks ==
    UNION { { d \in [1..n -> {FileOf(p, s) : p \in Paths, s \in Profiles}] :
                \A i, j \in 1..n : i # j => d[i].path # d[j].path } : n \in 0..MaxFiles }

\* most files of a version directory published with SRIs
MaxSRIFiles == 3

\* the paths of those directories, in the order of the listing
SRIPaths == << <<"LICENSE">>, <<"a", ".js">>, <<"a", ".js", ".br">>,
              <<"b", ".css">>, <<"c", ".js">>, <<"f", ".woff2">> >>

\* a small file, a file oversized in every form, a file that cannot be read
SRIProfiles == { [raw |-> 1, br |-> 1, gz |-> 1, ok |-> TRUE],
                 [raw |-> MaxFileSize + 1, br |-> MaxFileSize + 1,
                  gz |-> MaxFileSize + 1, ok |-> TRUE],
                 [raw |-> 1, br |-> 1, gz |-> 1, ok |-> FALSE] }

\* the elements of a set of indices into SRIPaths, ascending
RECURSIVE Ascending(_)
Ascending(S) ==
    IF S = {} THEN <<>>
    ELSE LET m == CHOOSE x \in S : \A y \in S : x <= y
         IN  <<m>> \o Ascending(S \ {m})

SRIDisks ==
    UNION { { [i \in 1..Cardinality(S) |-> FileOf(SRIPaths[Ascending(S)[i]], c[Ascending(S)[i]])] :
                c \in [S -> SRIProfiles] } :
            S \in {T \in SUBSET (1..Len(SRIPaths)) : Cardinality(T) <= MaxSRIFiles} }

\* what a key of the versions namespace can hold: the manifest of no file, of
\* two files, of three files (versions.go:31-42), and bytes that are no JSON
ManifestValues ==
    { updateVersionRequest(fs).value :
        fs \in { <<>>,
                 << <<"a", ".js", ".br">>, <<"a", ".js", ".gz">> >>,
                 << <<"a", ".js", ".br">>, <<"a", ".js", ".gz">>,
                    <<"f", ".woff2">> >> } }
    \cup { [enc |-> "raw", of |-> <<>>, len |-> 1] }

\* the versions namespace: any of the package's versions, and one version of
\* another package
VersionStores ==
    UNION { [ {VersionKeys[i] : i \in S \cup {MaxAggVersions + 1}} -> ManifestValues ] :
            S \in SUBSET (1..MaxAggVersions) }

\* most authors of a package
MaxAuthors == 2

\* an author: a name, and optionally an email and a URL
AuthorRecs ==
    [Name : {"n", "m"}, Email : {NilField, "e"}, URL : {NilField, "u"}]

AuthorLists == UNION {[1..n -> AuthorRecs] : n \in 0..MaxAuthors}

\* the inputs: bytes that are no JSON, JSON the schema rejects, JSON that
\* json.Unmarshal rejects, and packages with any `authors` and with an
\* `author` that is absent, the string of a list of at most one author, or
\* another string
Docs ==
    LET fields == {[Authors |-> as, Author |-> a] :
                      as \in {NilAuthors} \cup {SomeAuthors(l) : l \in AuthorLists},
                      a \in {NilAuthor, SomeAuthor(<<"x">>)}
                            \cup {SomeAuthor(parseAuthor(l)) :
                                     l \in UNION {[1..n -> AuthorRecs] : n \in 0..1}}}
    IN  {[json |-> j, valid |-> v, unmarshals |-> u,
          Authors |-> f.Authors, Author |-> f.Author] :
            j \in BOOLEAN, v \in BOOLEAN, u \in BOOLEAN, f \in fields}

\* most packages of a rebuild from scratch
MaxScratchPckgs == 3

ScratchLists == UNION {[1..n -> {"p", "q"}] : n \in 0..MaxScratchPckgs}

-----------------------------------------------------------------------------
(* InsertFromDisk is idle in the specifications of the bulk writer and of the
   publish. *)
DiskIdle ==
    /\ pckgs = <<>> /\ jobs = <<>> /\ jobsClosed = FALSE
    /\ doneClosed = FALSE /\ mpc = "idle" /\ mq = 0 /\ mi = 0 /\ totals = <<0, 0>>
    /\ wpc = <<>> /\ wjob = <<>> /\ wver = <<>> /\ wtot = <<>>
    /\ inserts = <<>> /\ reported = <<>> /\ completed = <<>>
    /\ failed = <<>> /\ crashed = FALSE

-----------------------------------------------------------------------------
(* Specification of one call of encodeAndWriteKVBulk on any request list. *)

InitBulk ==
    /\ bpc = "loop" /\ kvs \in RequestLists /\ namespaceID = filesNamespaceID
    /\ idx = 1 /\ bulkWrites = <<>> /\ bulkWrite = <<>> /\ totalSize = 0
    /\ totalKeys = 0 /\ wi = 0 /\ berr = Nil /\ debugLog = <<>> /\ apiCalls = <<>>
    /\ PubIdle
    /\ DiskIdle
    /\ KVFIdle
    /\ AggIdle
    /\ ParseIdle
    /\ ScratchIdle

NextBulk ==
    \/ BulkLoop /\ UNCHANGED <<pubVars, diskVars, kvfVars, aggVars, parseVars, scratchVars>>
    \/ BulkLoopEnd /\ UNCHANGED <<pubVars, diskVars, kvfVars, aggVars, parseVars, scratchVars>>
    \/ BulkWrite /\ UNCHANGED <<pubVars, diskVars, kvfVars, aggVars, parseVars, scratchVars>>
    \/ BulkReturn /\ UNCHANGED <<pubVars, diskVars, kvfVars, aggVars, parseVars, scratchVars>>

SpecBulk == InitBulk /\ [][NextBulk]_vars

(* Specification of one InsertNewVersionToKV on any version directory. *)

InitPublish ==
    /\ BulkIdle
    /\ ppc = "list" /\ disk \in Disks /\ fromVersionPaths = <<>> /\ perr = Nil
    /\ DiskIdle
    /\ KVFIdle
    /\ AggIdle
    /\ ParseIdle
    /\ ScratchIdle

NextPublish ==
    \/ ListFiles
    \/ UpdateKVFilesCall
    \/ UpdateKVFilesReturn
    \/ UpdateKVVersionCall
    \/ UpdateKVVersionReturn
    \/ BulkLoop /\ UNCHANGED <<pubVars, diskVars, kvfVars, aggVars, parseVars, scratchVars>>
    \/ BulkLoopEnd /\ UNCHANGED <<pubVars, diskVars, kvfVars, aggVars, parseVars, scratchVars>>
    \/ BulkWrite /\ UNCHANGED <<pubVars, diskVars, kvfVars, aggVars, parseVars, scratchVars>>
    \/ BulkReturn /\ UNCHANGED <<pubVars, diskVars, kvfVars, aggVars, parseVars, scratchVars>>

SpecPublish == InitPublish /\ [][NextPublish]_vars

(* Specification of one publish with SRIs, in any combination of the modes. *)

InitKVFiles ==
    /\ BulkIdle
    /\ ppc = "idle" /\ disk \in SRIDisks /\ perr = Nil
    /\ fromVersionPaths = [i \in 1..Len(disk) |-> disk[i].path]
    /\ DiskIdle
    /\ upc = "start"
    /\ srisOnly \in BOOLEAN /\ filesOnly \in BOOLEAN
    /\ noPush \in BOOLEAN /\ panicOversized \in BOOLEAN
    /\ sriReqs = <<>> /\ fileReqs = <<>>
    /\ theoreticalSRIsKeys = 0 /\ theoreticalFilesKeys = 0
    /\ successfulSRIWrites = <<>> /\ uret = NoReturn
    /\ AggIdle
    /\ ParseIdle
    /\ ScratchIdle

NextKVFiles ==
    \/ KVFBuild
    \/ KVFAfterBuild
    \/ KVFSRIsReturn
    \/ KVFWriteFiles
    \/ KVFFilesReturn
    \/ KVFVersion
    \/ KVFVersionReturn
    \/ BulkLoop /\ UNCHANGED <<pubVars, diskVars, kvfVars, aggVars, parseVars, scratchVars>>
    \/ BulkLoopEnd /\ UNCHANGED <<pubVars, diskVars, kvfVars, aggVars, parseVars, scratchVars>>
    \/ BulkWrite /\ UNCHANGED <<pubVars, diskVars, kvfVars, aggVars, parseVars, scratchVars>>
    \/ BulkReturn /\ UNCHANGED <<pubVars, diskVars, kvfVars, aggVars, parseVars, scratchVars>>

SpecKVFiles == InitKVFiles /\ [][NextKVFiles]_vars

(* Specification of the aggregate rebuild of one package, run MaxRuns times
   over a versions namespace that is not written meanwhile. *)

InitAggregate ==
    /\ BulkIdle
    /\ PubIdle
    /\ DiskIdle
    /\ KVFIdle
    /\ apc = "start"
    /\ kvPackages \in BOOLEAN
    /\ kvVersions \in VersionStores
    /\ versions = <<>> /\ vj = 0 /\ assets = <<>> /\ run = 1
    /\ aggLog = <<>> /\ aggCrashed = Nil
    /\ ParseIdle
    /\ ScratchIdle

NextAggregate ==
    \/ AggGetPackage
    \/ AggGetVersions
    \/ AggGetVersion
    \/ AggWrite
    \/ AggWriteReturn
    \/ AggRerun
    \/ BulkLoop /\ UNCHANGED <<pubVars, diskVars, kvfVars, aggVars, parseVars, scratchVars>>
    \/ BulkLoopEnd /\ UNCHANGED <<pubVars, diskVars, kvfVars, aggVars, parseVars, scratchVars>>
    \/ BulkWrite /\ UNCHANGED <<pubVars, diskVars, kvfVars, aggVars, parseVars, scratchVars>>
    \/ BulkReturn /\ UNCHANGED <<pubVars, diskVars, kvfVars, aggVars, parseVars, scratchVars>>

SpecAggregate == InitAggregate /\ [][NextAggregate]_vars

(* Specification of one call of ReadNonHumanJSONBytes on any of the inputs. *)

InitParse ==
    /\ BulkIdle
    /\ PubIdle
    /\ DiskIdle
    /\ KVFIdle
    /\ AggIdle
    /\ rpc = "call"
    /\ doc \in Docs
    /\ rret = ParseResult(NilPackage, NoError)
    /\ ScratchIdle

NextParse == ParseCall

SpecParse == InitParse /\ [][NextParse]_vars

(* Specification of InsertAggregateMetadataFromScratch over any list of
   packages, with a scheduler that lets a routine that can take a step
   take one in the end. *)

InitScratch ==
    /\ BulkIdle
    /\ PubIdle
    /\ DiskIdle
    /\ KVFIdle
    /\ AggIdle
    /\ ParseIdle
    /\ scratchPckgs \in ScratchLists
    /\ spc = "spawn" /\ si = 0 /\ wg = 0
    /\ gpc = [g \in 1..Len(scratchPckgs) |-> "idle"]
    /\ gpanic = [g \in 1..Len(scratchPckgs) |-> FALSE]
    /\ glookup = [g \in 1..Len(scratchPckgs) |-> "none"]
    /\ gsent = [g \in 1..Len(scratchPckgs) |-> 0]
    /\ cpc = "idle" /\ ci = 0 /\ received = <<>> /\ scrashed = FALSE

NextScratch ==
    \/ Spawn
    \/ SpawnCollector
    \/ \E g \in Routines : ScratchGetPackage(g)
    \/ \E g \in Routines : ScratchRebuild(g)
    \/ \E g \in Routines : ScratchDeliver(g)
    \/ \E g \in Routines : ScratchDone(g)
    \/ \E g \in Routines : ScratchCrash(g)
    \/ CollectorDone
    \/ WaitReturns

SpecScratch == InitScratch /\ [][NextScratch]_vars /\ WF_vars(NextScratch)

-----------------------------------------------------------------------------
(* Properties of the bulk writer. *)

Range(s) == {s[i] : i \in 1..Len(s)}

\* encoded bytes of a batch: base64 length of every value plus the length of
\* its metadata
RECURSIVE BatchBytes(_)
BatchBytes(b) ==
    IF b = <<>> THEN 0
    ELSE encodeToBase64Len(b[1].Value.len) + b[1].Metadata + BatchBytes(Tail(b))

\* every batch built so far, closed, open or sent
Batches == Range(bulkWrites) \cup {bulkWrite} \cup {apiCalls[i].b : i \in 1..Len(apiCalls)}

BatchKeys(b) == {b[i].Key : i \in 1..Len(b)}

\* C1: every batch encodeAndWriteKVBulk builds stays within both caps: its
\* encoded bytes (base64 values plus metadata) are at most
\* MaxBulkWritePayload and it holds at most MaxBulkKeys entries.
C1_BatchesWithinCaps ==
    \A b \in Batches :
        /\ BatchBytes(b) <= MaxBulkWritePayload
        /\ Len(b) <= MaxBulkKeys

\* a call that closed one batch on the byte cap (fewer than MaxBulkKeys
\* entries in a closed batch) and filled another to the key cap
C1_Witness ==
    /\ bpc = "ret"
    /\ \E i \in 1..Len(bulkWrites) - 1 :
          Len(bulkWrites[i]) < MaxBulkKeys /\ Len(bulkWrites[i]) > 0
    /\ \E i \in 1..Len(bulkWrites) : Len(bulkWrites[i]) = MaxBulkKeys

\* the requests the loop has been through
Seen == {kvs[i] : i \in 1..(IF bpc = "loop" THEN idx - 1 ELSE Len(kvs))}

InSomeBatch(kv) == \E b \in Batches : kv.key \in BatchKeys(b)

\* C2 as stated: a request whose encoded size (base64 value plus metadata)
\* exceeds the per-entry cap is in no batch and is reported.
C2_EncodedSizeDropped ==
    \A kv \in Seen :
        encodeToBase64Len(kv.value.len) + kv.meta > MaxFileSize
            => ~InSomeBatch(kv) /\ kv.key \in Range(debugLog)

\* C2, amended: a request is dropped and reported exactly when its unencoded
\* value is longer than MaxFileSize or its metadata longer than
\* MaxMetadataSize; every other request of the call is in a batch, the drops
\* cause no error, and a call that returns nil has written every one of them.
C2_OversizedDropped ==
    /\ \A kv \in Seen :
          IF kv.value.len > MaxFileSize \/ kv.meta > MaxMetadataSize
          THEN ~InSomeBatch(kv) /\ kv.key \in Range(debugLog)
          ELSE kv.key \notin Range(debugLog)
               /\ \E b \in Range(bulkWrites) \cup {bulkWrite} : kv.key \in BatchKeys(b)
    /\ bpc = "ret" /\ berr # Nil =>
          apiCalls # <<>> /\ apiCalls[Len(apiCalls)].err = berr
    /\ bpc = "ret" /\ berr = Nil =>
          \A kv \in Seen :
              kv.value.len <= MaxFileSize /\ kv.meta <= MaxMetadataSize
                  => \E i \in 1..Len(apiCalls) :
                        apiCalls[i].err = Nil /\ kv.key \in BatchKeys(apiCalls[i].b)

\* a call that dropped one request, kept one whose base64 length is over
\* MaxFileSize, and returned nil
C2_Witness ==
    /\ bpc = "ret" /\ berr = Nil
    /\ debugLog # <<>>
    /\ \E kv \in Seen :
          /\ encodeToBase64Len(kv.value.len) > MaxFileSize
          /\ \E i \in 1..Len(apiCalls) : kv.key \in BatchKeys(apiCalls[i].b)

\* C11: the batches of one call are written in the order they were built,
\* each at most once: the i-th API call carries the i-th batch; a failed
\* write is the call's last one, and the call returns that write's error.
C11_InOrderNoRetryAbort ==
    /\ Len(apiCalls) <= Len(bulkWrites)
    /\ \A i \in 1..Len(apiCalls) :
          /\ apiCalls[i].b = bulkWrites[i]
          /\ apiCalls[i].ns = namespaceID
          /\ apiCalls[i].err # Nil =>
                /\ i = Len(apiCalls)
                /\ bpc = "ret"
                /\ berr = apiCalls[i].err
    /\ bpc = "ret" /\ berr = Nil =>
          /\ Len(apiCalls) = Len(bulkWrites)
          /\ \A i \in 1..Len(apiCalls) : apiCalls[i].err = Nil

\* a call of three batches that wrote the first, failed on the second and
\* returned without trying the third
C11_Witness ==
    /\ bpc = "ret" /\ berr # Nil
    /\ Len(bulkWrites) = 3
    /\ Len(apiCalls) = 2
    /\ apiCalls[1].err = Nil

\* C12: checkSuccess gives an error when the call itself errored and also
\* when the call returned with Success false; it gives nil only for a nil
\* error with Success true.  Both shapes end the bulk write alike.
C12_BothFailureShapes ==
    \A i \in 1..Len(apiCalls) :
        LET c == apiCalls[i]
        IN  /\ c.r.err # Nil => c.err # Nil
            /\ (c.r.err = Nil /\ ~c.r.Success) => c.err # Nil
            /\ c.err = Nil <=> (c.r.err = Nil /\ c.r.Success)
            /\ (c.r.err # Nil \/ ~c.r.Success) => bpc = "ret" /\ berr # Nil

\* a call returned without error but with Success false, after a good write
C12_Witness ==
    /\ Len(apiCalls) >= 2
    /\ apiCalls[1].err = Nil
    /\ LET c == apiCalls[Len(apiCalls)]
       IN  c.r.err = Nil /\ ~c.r.Success /\ c.err # Nil
    /\ bpc = "ret"

\* the entries of a list of batches, one after the other
RECURSIVE Flatten(_)
Flatten(bs) == IF bs = <<>> THEN <<>> ELSE bs[1] \o Flatten(Tail(bs))

\* the keys of a list of entries, in order
KeysOf(b) == [i \in 1..Len(b) |-> b[i].Key]

\* the keys of the requests the loop has been through and kept, in input order
KeptKeys ==
    LET n == IF bpc = "loop" THEN idx - 1 ELSE Len(kvs)
        kept == SelectSeq(SubSeq(kvs, 1, n),
                    LAMBDA kv : kv.value.len <= MaxFileSize
                                   /\ kv.meta <= MaxMetadataSize)
    IN  [i \in 1..Len(kept) |-> kept[i].key]

\* C21: the batches, one after the other in the order they were closed (the
\* open one last), hold the kept requests of the input in input order, each
\* once; the batches written are the first batches of that list, in order.
C21_BatchesPreserveOrder ==
    /\ KeysOf(Flatten(bulkWrites) \o (IF bpc = "loop" THEN bulkWrite ELSE <<>>))
          = KeptKeys
    /\ KeysOf(Flatten([i \in 1..Len(apiCalls) |-> apiCalls[i].b]))
          = SubSeq(KeptKeys, 1, Len(Flatten([i \in 1..Len(apiCalls) |-> apiCalls[i].b])))
    /\ (bpc = "ret" /\ berr = Nil) =>
          KeysOf(Flatten([i \in 1..Len(apiCalls) |-> apiCalls[i].b])) = KeptKeys

\* a call that dropped the request between two kept ones and wrote these in
\* two batches
C21_Witness ==
    /\ bpc = "ret" /\ berr = Nil
    /\ Len(kvs) = 3
    /\ KeptKeys = <<kvs[1].key, kvs[3].key>>
    /\ Len(apiCalls) = 2
    /\ apiCalls[1].b # <<>> /\ apiCalls[2].b # <<>>

\* C23 as stated: every bulk write call carries at least one entry.
C23_NoEmptyBatchSent ==
    \A i \in 1..Len(apiCalls) : apiCalls[i].b # <<>>

\* what holds instead: only the last batch of a call can be empty, and it is
\* empty exactly when no request of the call was kept
C23_OnlyLastBatchEmpty ==
    bpc \in {"write", "ret"} =>
        /\ \A i \in 1..Len(bulkWrites) - 1 : bulkWrites[i] # <<>>
        /\ bulkWrites[Len(bulkWrites)] = <<>> <=> KeptKeys = <<>>

-----------------------------------------------------------------------------
(* Properties of one publish. *)

IsFileCall(c) == c.ns = filesNamespaceID
IsVersionCall(c) == c.ns = versionsNamespaceID

\* the files of the version directory by class
IgnoredFiles == {f \in Range(disk) : Ext(f.path) \in {".br", ".gz"}}
UncompressedFiles == {f \in Range(disk) : Ext(f.path) = ".woff2"}
DefaultFiles == Range(disk) \ (IgnoredFiles \cup UncompressedFiles)

FileKey(p) == <<pkg, "/", version, "/">> \o p
NameOfKey(k) == SubSeq(k, 5, Len(k))

\* the keys the publish has to write: the requests of every file that is not
\* ignored, less the oversized ones
KeysToWrite ==
    UNION { IF f \in UncompressedFiles
            THEN (IF f.raw > MaxFileSize THEN {} ELSE {FileKey(f.path)})
            ELSE (IF f.br > MaxFileSize THEN {} ELSE {FileKey(Append(f.path, ".br"))})
                 \cup (IF f.gz > MaxFileSize THEN {} ELSE {FileKey(Append(f.path, ".gz"))})
          : f \in Range(disk) \ IgnoredFiles }

\* C3: the version manifest is written only after every file batch of the
\* version has been written with success; after a failed file batch no
\* manifest write is ever issued.
C3_ManifestAfterFileBatches ==
    /\ \A i \in 1..Len(apiCalls) :
          IsVersionCall(apiCalls[i]) =>
              /\ i = Len(apiCalls)
              /\ i > 1
              /\ \A j \in 1..(i - 1) : IsFileCall(apiCalls[j]) /\ apiCalls[j].err = Nil
              /\ UNION {BatchKeys(apiCalls[j].b) : j \in 1..(i - 1)} = KeysToWrite
    /\ (\E j \in 1..Len(apiCalls) : IsFileCall(apiCalls[j]) /\ apiCalls[j].err # Nil)
          => /\ \A i \in 1..Len(apiCalls) : ~IsVersionCall(apiCalls[i])
             /\ ppc \in {"filesWait", "done"}

\* a manifest write that follows two file batches
C3_Witness ==
    \E i \in 3..Len(apiCalls) : IsVersionCall(apiCalls[i]) /\ apiCalls[i].b # <<>>

\* the names of the entries of the successful file batches, in order
RECURSIVE NamesWritten(_)
NamesWritten(calls) ==
    IF calls = <<>> THEN <<>>
    ELSE (IF IsFileCall(calls[1]) /\ calls[1].err = Nil
          THEN [k \in 1..Len(calls[1].b) |-> NameOfKey(calls[1].b[k].Key)]
          ELSE <<>>) \o NamesWritten(Tail(calls))

\* the manifests sent to the versions namespace
Manifests ==
    {apiCalls[i].b[1] : i \in {j \in 1..Len(apiCalls) :
                                  IsVersionCall(apiCalls[j]) /\ apiCalls[j].b # <<>>}}

\* C4: the manifest written for a version lists exactly the names of the
\* entries published by the file batches, with their final suffix: no
\* unsuffixed name of a compressed file, nothing dropped, nothing unwritten.
C4_ManifestListsPublished ==
    \A m \in Manifests :
        /\ m.Key = <<pkg, "/", version>>
        /\ m.Value.enc = "json"
        /\ m.Value.of = NamesWritten(apiCalls)
        /\ Range(m.Value.of) = {NameOfKey(k) : k \in KeysToWrite}
        /\ \A f \in DefaultFiles : f.path \notin Range(m.Value.of)

\* a manifest written for a directory with an ignored file and a dropped
\* oversized entry
C4_Witness ==
    /\ \E m \in Manifests : m.Value.of # <<>>
    /\ apiCalls[Len(apiCalls)].err = Nil
    /\ debugLog # <<>>
    /\ IgnoredFiles # {}
    /\ ppc = "done"

\* the file requests of the publish, once getFileWriteRequests has built them
FileRequestsBuilt == ppc = "filesWait"

RequestsOf(f) == {kvs[k] : k \in {j \in 1..Len(kvs) : kvs[j].value.of = f.path}}
IndicesOf(f) == {j \in 1..Len(kvs) : kvs[j].value.of = f.path}

\* C5: a file of the default class yields exactly two requests, keyed
\* <path>.br and <path>.gz; the unsuffixed key is never written.
C5_DefaultClassTwoRequests ==
    /\ FileRequestsBuilt =>
          \A f \in DefaultFiles :
              /\ Cardinality(IndicesOf(f)) = 2
              /\ {r.key : r \in RequestsOf(f)} =
                    {FileKey(Append(f.path, ".br")), FileKey(Append(f.path, ".gz"))}
              /\ \A r \in RequestsOf(f) :
                    r.value.enc = (IF r.key = FileKey(Append(f.path, ".br")) THEN "br" ELSE "gz")
              /\ \A r \in Range(kvs) : r.key # FileKey(f.path)
    /\ \A i \in 1..Len(apiCalls) : \A f \in DefaultFiles :
          IsFileCall(apiCalls[i]) => FileKey(f.path) \notin BatchKeys(apiCalls[i].b)

\* the requests of a directory with a default-class file are built and written
C5_Witness ==
    /\ DefaultFiles # {}
    /\ FileRequestsBuilt
    /\ \E i \in 1..Len(apiCalls) : apiCalls[i].b # <<>>

\* C6: a do-not-compress file (.woff2) yields exactly one request: key and
\* name are the original path, the value is the raw bytes.
C6_DoNotCompressOneRequest ==
    FileRequestsBuilt =>
        \A f \in UncompressedFiles :
            /\ Cardinality(IndicesOf(f)) = 1
            /\ \A r \in RequestsOf(f) :
                  /\ r.key = FileKey(f.path)
                  /\ r.name = f.path
                  /\ r.value = [enc |-> "raw", of |-> f.path, len |-> f.raw]

\* the requests of a directory with a .woff2 file are built
C6_Witness ==
    /\ UncompressedFiles # {}
    /\ FileRequestsBuilt
    /\ bpc = "ret"

\* C7: an ignored file (.br, .gz) yields no request, neither file nor SRI,
\* and nothing of it is in a batch or in a manifest.
C7_IgnoredNoRequests ==
    /\ FileRequestsBuilt => \A f \in IgnoredFiles : IndicesOf(f) = {}
    /\ \A f \in IgnoredFiles : \A b \in Batches : \A k \in 1..Len(b) :
          b[k].Value.of # f.path
    /\ \A m \in Manifests : \A n \in Range(m.Value.of) :
          \E g \in Range(disk) \ IgnoredFiles :
              n \in {g.path, Append(g.path, ".br"), Append(g.path, ".gz")}
    /\ ppc # "list" =>
          \A s \in BOOLEAN :
              LET r == getFileWriteRequestsSRI(disk, s)
              IN  \A f \in IgnoredFiles :
                      \A q \in Range(r.sriKVs) \cup Range(r.fileKVs) : q.value.of # f.path

\* a publish of a directory with an ignored file next to a published one
C7_Witness ==
    /\ IgnoredFiles # {}
    /\ \E m \in Manifests : m.Value.of # <<>>
    /\ \E f \in IgnoredFiles : f.ok

\* a file of the version that is not ignored cannot be stat'ed or read
SomeFileUnreadable == \E f \in Range(disk) \ IgnoredFiles : ~f.ok

\* C25: when a file of the version that is not ignored cannot be stat'ed or
\* read, the publish issues no write call at all, whatever precedes the file
\* in the list, and returns an error: the file's, unless already the listing
\* of the directory failed.
C25_UnreadableFileNoWrites ==
    SomeFileUnreadable =>
        /\ apiCalls = <<>>
        /\ bpc = "idle"
        /\ ppc \in {"list", "files", "done"}
        /\ ppc = "done" => perr \in {"ioerr", "listerr"}
        /\ (ppc = "done" /\ fromVersionPaths # <<>>) => perr = "ioerr"

\* a publish ended on the second file, which cannot be read, after a first
\* file that gives requests
C25_Witness ==
    /\ ppc = "done" /\ perr = "ioerr"
    /\ Len(disk) = 2
    /\ disk[1].ok /\ disk[1] \notin IgnoredFiles
    /\ ~disk[2].ok /\ disk[2] \notin IgnoredFiles
    /\ apiCalls = <<>>

-----------------------------------------------------------------------------
(* Properties of one publish with SRIs. *)

\* updateKVFiles has returned to its caller
Returned == upc \in {"ret", "versionWait", "done"}

\* every file that is not ignored could be read, so the requests were built
RequestsBuilt == \A f \in Range(disk) \ IgnoredFiles : f.ok

\* the files an SRI is calculated for
SRIFiles == {f \in Range(disk) \ IgnoredFiles : Ext(f.path) \in {".js", ".css"}}

\* the numbers of SRI and of file requests the version gives rise to
ExpectedSRIKeys == Cardinality(SRIFiles)
ExpectedFileKeys ==
    IF srisOnly THEN 0
    ELSE 2 * Cardinality(DefaultFiles) + Cardinality(UncompressedFiles)

SRICalls == {i \in 1..Len(apiCalls) : apiCalls[i].ns = srisNamespaceID}
FileCalls == {i \in 1..Len(apiCalls) : apiCalls[i].ns = filesNamespaceID}
VersionCalls == {i \in 1..Len(apiCalls) : apiCalls[i].ns = versionsNamespaceID}

\* C13: whenever the requests of a version were built, the call returns the
\* theoretical SRI and file key counts (requests built, dropped ones
\* included), in every mode and also when a write failed.
C13_CountsAlwaysReturned ==
    Returned /\ RequestsBuilt =>
        /\ uret.theoreticalSRIsKeys = ExpectedSRIKeys
        /\ uret.theoreticalFilesKeys = ExpectedFileKeys

\* C14: with noPush no write call is issued to any namespace (the bulk
\* writer is never entered), and the theoretical keys are counted as in a
\* push: the counts are those of the requests the version gives rise to,
\* and they are what the call returns, without an error.
C14_NoPushWritesNothing ==
    /\ noPush => apiCalls = <<>> /\ bpc = "idle"
    /\ (upc # "start" /\ RequestsBuilt) =>
          /\ theoreticalSRIsKeys = ExpectedSRIKeys
          /\ theoreticalFilesKeys = ExpectedFileKeys
    /\ (noPush /\ Returned /\ RequestsBuilt) =>
          uret = Returns(<<>>, <<>>, ExpectedSRIKeys, ExpectedFileKeys, Nil)

\* a finished dry run of a version with SRI requests and with file requests,
\* one of them oversized
C14_Witness ==
    /\ noPush /\ upc = "done"
    /\ uret.theoreticalSRIsKeys > 0
    /\ uret.theoreticalFilesKeys > 2
    /\ OversizedRequests(fileReqs) # {}
    /\ \E i \in 1..Len(fileReqs) : i \notin OversizedRequests(fileReqs)

\* the keys written with success to a namespace
WrittenKeys(calls) ==
    UNION {BatchKeys(apiCalls[i].b) : i \in {j \in calls : apiCalls[j].err = Nil}}

\* C15: a call that returns an error returns with it what was completed
\* before: the SRI names and the file names of the keys already written
\* with success, none of them left out.
C15_PartialResultsWithError ==
    (Returned /\ uret.err # Nil) =>
        /\ {FileKey(n) : n \in Range(uret.successfulSRIWrites)} = WrittenKeys(SRICalls)
        /\ {FileKey(n) : n \in Range(uret.successfulFileWrites)} = WrittenKeys(FileCalls)

-----------------------------------------------------------------------------
(* part_000:71-149  InsertFromDisk: a pool of workers takes one uploadWork a
   package from the jobs channel, inserts the package's versions one after
   the other and hands one uploadResult to the main routine over the
   unbuffered done channel.  InsertNewVersionToKV is a call whose outcome
   (error, theoretical key counts) the worker cannot influence. *)

\* most package names in a run, most versions of a package, and the size of
\* the pool (runtime.NumCPU()*10 in the code)
MaxPckgs == 3
MaxVersions == 2
NumWorkers == 2

PckgNames == {"p", "q", "r"}

\* part_000:102  pckg.Versions(): the versions of each package on disk; "p"
\* has the most, "q" one, "r" none
VersionsOf(name) ==
    IF name = "p" THEN [v \in 1..MaxVersions |-> v]
    ELSE IF name = "q" THEN <<1>>
    ELSE <<>>
Workers == 1..NumWorkers
NoJob == [Index |-> 0, Name |-> ""]

\* what one InsertNewVersionToKV call returns: err and the theoretical
\* <<SRI keys, file keys>> (here those of a version of one script file)
KeyCounts == {<<1, 2>>}
InsertOutcomes == {[err |-> e, keys |-> c] : e \in {Nil, "inserterr"}, c \in KeyCounts}

Add2(a, b) == <<a[1] + b[1], a[2] + b[2]>>

\* the job a worker holds, as an index into pckgs
JobOf(w) == wjob[w].Index + 1

\* part_000:125-130  jobs <- uploadWork{index, name}; the channel holds
\* len(pckgs) items, so the send never blocks
Enqueue ==
    /\ ~crashed
    /\ mpc = "enqueue"
    /\ mq < Len(pckgs)
    /\ Len(jobs) < Len(pckgs)
    /\ jobs' = Append(jobs, [Index |-> mq, Name |-> pckgs[mq + 1]])
    /\ mq' = mq + 1
    /\ UNCHANGED <<pckgs, jobsClosed, doneClosed, mpc, mi, totals, wpc,
                   wjob, wver, wtot, inserts, reported, completed, failed, crashed>>

\* part_000:131-133  close(jobs)
CloseJobs ==
    /\ ~crashed
    /\ mpc = "enqueue"
    /\ mq = Len(pckgs)
    /\ jobsClosed' = TRUE
    /\ mpc' = "collect"
    /\ mi' = 0
    /\ totals' = <<0, 0>>
    /\ UNCHANGED <<pckgs, jobs, doneClosed, mq, wpc, wjob, wver, wtot,
                   inserts, reported, completed, failed, crashed>>

\* part_000:82-85  `for j := range jobs` receives a job
TakeJob(w) ==
    /\ ~crashed
    /\ wpc[w] = "idle"
    /\ jobs # <<>>
    /\ wjob' = [wjob EXCEPT ![w] = Head(jobs)]
    /\ jobs' = Tail(jobs)
    /\ wtot' = [wtot EXCEPT ![w] = <<0, 0>>]
    /\ wver' = [wver EXCEPT ![w] = 0]
    /\ wpc' = [wpc EXCEPT ![w] = "get"]
    /\ UNCHANGED <<pckgs, jobsClosed, doneClosed, mpc, mq, mi, totals,
                   inserts, reported, completed, failed, crashed>>

\* part_000:82,121-122  `range jobs` ends on the closed, drained channel
WorkerExit(w) ==
    /\ ~crashed
    /\ wpc[w] = "idle"
    /\ jobs = <<>>
    /\ jobsClosed
    /\ wpc' = [wpc EXCEPT ![w] = "exit"]
    /\ UNCHANGED <<pckgs, jobs, jobsClosed, doneClosed, mpc, mq, mi,
                   totals, wjob, wver, wtot, inserts, reported, completed, failed, crashed>>

\* (variant: a failed lookup ends the job without a message)
GetPackageSilent(w) ==
    /\ ~crashed
    /\ wpc[w] = "get"
    /\ \/ wpc' = [wpc EXCEPT ![w] = "versions"]
       \/ wpc' = [wpc EXCEPT ![w] = "send"]
    /\ UNCHANGED <<pckgs, jobs, jobsClosed, doneClosed, mpc, mq, mi,
                   totals, wjob, wver, wtot, inserts, reported, completed,
                   failed, crashed>>

\* part_000:94-100  GetPackage; on an error the job returns
GetPackage(w) ==
    /\ ~crashed
    /\ wpc[w] = "get"
    /\ \/ /\ wpc' = [wpc EXCEPT ![w] = "versions"]
          /\ UNCHANGED failed
       \/ /\ failed' = [failed EXCEPT ![JobOf(w)] = "readerr"]
          /\ wpc' = [wpc EXCEPT ![w] = "send"]
    /\ UNCHANGED <<pckgs, jobs, jobsClosed, doneClosed, mpc, mq, mi,
                   totals, wjob, wver, wtot, inserts, reported, completed, crashed>>

\* part_000:102-107  pckg.Versions(); an error panics, and the deferred send
\* of part_000:86-92 runs while the panic unwinds
Versions(w) ==
    /\ ~crashed
    /\ wpc[w] = "versions"
    /\ \/ /\ wpc' = [wpc EXCEPT ![w] = "loop"]
          /\ wver' = [wver EXCEPT ![w] = 1]
          /\ UNCHANGED failed
       \/ /\ failed' = [failed EXCEPT ![JobOf(w)] = "panic"]
          /\ wpc' = [wpc EXCEPT ![w] = "send"]
          /\ UNCHANGED wver
    /\ UNCHANGED <<pckgs, jobs, jobsClosed, doneClosed, mpc, mq, mi,
                   totals, wjob, wtot, inserts, reported, completed, crashed>>

\* (variant: the insert of a version is started without waiting for it)
InsertStartAsync(w) ==
    /\ ~crashed
    /\ wpc[w] = "loop"
    /\ wver[w] <= Len(VersionsOf(wjob[w].Name))
    /\ inserts' = [inserts EXCEPT ![JobOf(w)] =
                      Append(@, [version |-> VersionsOf(wjob[w].Name)[wver[w]],
                                 err |-> "running", keys |-> <<0, 0>>])]
    /\ wver' = [wver EXCEPT ![w] = @ + 1]
    /\ UNCHANGED <<pckgs, jobs, jobsClosed, doneClosed, mpc, mq, mi,
                   totals, wpc, wjob, wtot, reported, completed, failed, crashed>>

\* part_000:107-110  the next version's InsertNewVersionToKV is called
InsertStart(w) ==
    /\ ~crashed
    /\ wpc[w] = "loop"
    /\ wver[w] <= Len(VersionsOf(wjob[w].Name))
    /\ inserts' = [inserts EXCEPT ![JobOf(w)] =
                      Append(@, [version |-> VersionsOf(wjob[w].Name)[wver[w]],
                                 err |-> "running", keys |-> <<0, 0>>])]
    /\ wpc' = [wpc EXCEPT ![w] = "insert"]
    /\ UNCHANGED <<pckgs, jobs, jobsClosed, doneClosed, mpc, mq, mi,
                   totals, wjob, wver, wtot, reported, completed, failed, crashed>>

\* (variant: the loop goes on to the next version after a failed insert)
InsertReturnContinue(w) ==
    /\ ~crashed
    /\ wpc[w] = "insert"
    /\ \E o \in InsertOutcomes :
        /\ inserts' = [inserts EXCEPT ![JobOf(w)][Len(inserts[JobOf(w)])] =
                          [@ EXCEPT !.err = o.err, !.keys = o.keys]]
        /\ wtot' = [wtot EXCEPT ![w] = Add2(@, o.keys)]
        /\ failed' = [failed EXCEPT ![JobOf(w)] = IF o.err # Nil THEN o.err ELSE @]
        /\ wver' = [wver EXCEPT ![w] = @ + 1]
        /\ wpc' = [wpc EXCEPT ![w] = "loop"]
    /\ UNCHANGED <<pckgs, jobs, jobsClosed, doneClosed, mpc, mq, mi,
                   totals, wjob, reported, completed, crashed>>

\* (variant: the counts of a failed insert are not added)
InsertReturnDropFailedCounts(w) ==
    /\ ~crashed
    /\ wpc[w] = "insert"
    /\ \E o \in InsertOutcomes :
        /\ inserts' = [inserts EXCEPT ![JobOf(w)][Len(inserts[JobOf(w)])] =
                          [@ EXCEPT !.err = o.err, !.keys = o.keys]]
        /\ IF o.err # Nil
           THEN /\ failed' = [failed EXCEPT ![JobOf(w)] = o.err]
                /\ wpc' = [wpc EXCEPT ![w] = "send"]
                /\ UNCHANGED <<wver, wtot>>
           ELSE /\ wtot' = [wtot EXCEPT ![w] = Add2(@, o.keys)]
                /\ wver' = [wver EXCEPT ![w] = @ + 1]
                /\ wpc' = [wpc EXCEPT ![w] = "loop"]
                /\ UNCHANGED failed
    /\ UNCHANGED <<pckgs, jobs, jobsClosed, doneClosed, mpc, mq, mi,
                   totals, wjob, reported, completed, crashed>>

\* part_000:110-118  InsertNewVersionToKV returns: the counts are added, and
\* an error ends the job
InsertReturn(w) ==
    /\ ~crashed
    /\ wpc[w] = "insert"
    /\ \E o \in InsertOutcomes :
        /\ inserts' = [inserts EXCEPT ![JobOf(w)][Len(inserts[JobOf(w)])] =
                          [@ EXCEPT !.err = o.err, !.keys = o.keys]]
        /\ wtot' = [wtot EXCEPT ![w] = Add2(@, o.keys)]
        /\ IF o.err # Nil
           THEN /\ failed' = [failed EXCEPT ![JobOf(w)] = o.err]
                /\ wpc' = [wpc EXCEPT ![w] = "send"]
                /\ UNCHANGED wver
           ELSE /\ wver' = [wver EXCEPT ![w] = @ + 1]
                /\ wpc' = [wpc EXCEPT ![w] = "loop"]
                /\ UNCHANGED failed
    /\ UNCHANGED <<pckgs, jobs, jobsClosed, doneClosed, mpc, mq, mi,
                   totals, wjob, reported, completed, crashed>>

\* part_000:107,119-120  the loop over the versions ends
VersionsDone(w) ==
    /\ ~crashed
    /\ wpc[w] = "loop"
    /\ wver[w] > Len(VersionsOf(wjob[w].Name))
    /\ wpc' = [wpc EXCEPT ![w] = "send"]
    /\ UNCHANGED <<pckgs, jobs, jobsClosed, doneClosed, mpc, mq, mi,
                   totals, wjob, wver, wtot, inserts, reported, completed, failed, crashed>>

\* (variant: a failed job ends its worker)
AfterSendExitOnFailure(w) ==
    IF failed[JobOf(w)] # Nil THEN "exit" ELSE "idle"

\* part_000:82-83,120-121  where a worker goes on after its deferred send: the
\* job's function has returned and the range loop takes the next job; after
\* a panic the goroutine never gets there, the panic goes on unwinding
AfterSend(w) ==
    IF failed[JobOf(w)] = "panic" THEN "panicking" ELSE "idle"

\* part_000:58-62,87-91  the uploadResult of the worker's job: the name and
\* the two counts
uploadResult(w) ==
    [Name |-> wjob[w].Name, TheoreticalSRIKeys |-> wtot[w][1],
     TheoreticalFileKeys |-> wtot[w][2]]

\* (variant: the collector stops one result short)
ToCollectShort == IF Len(pckgs) > 0 THEN Len(pckgs) - 1 ELSE 0

\* part_000:136  the number of results the collector receives
ToCollect == Len(pckgs)

\* part_000:86-92,136-141  the deferred `done <- uploadResult{...}` meets the
\* collector's `res := <-done`: done is unbuffered, so the send and the
\* receive are one step.  A send on the closed channel panics.
Deliver(w) ==
    /\ ~crashed
    /\ wpc[w] = "send"
    /\ IF doneClosed
       THEN /\ crashed' = TRUE
            /\ UNCHANGED <<mi, totals, reported, completed, wpc, wjob, wver, wtot>>
       ELSE /\ mpc = "collect"
            /\ mi < ToCollect
            /\ reported' = [reported EXCEPT ![JobOf(w)] = @ + 1]
            /\ completed' = [completed EXCEPT ![JobOf(w)] = Append(@, uploadResult(w))]
            /\ totals' = Add2(totals, <<uploadResult(w).TheoreticalSRIKeys,
                                        uploadResult(w).TheoreticalFileKeys>>)
            /\ mi' = mi + 1
            /\ wpc' = [wpc EXCEPT ![w] = AfterSend(w)]
            /\ UNCHANGED crashed
            \* the job's function has returned: its locals are gone
            /\ wjob' = [wjob EXCEPT ![w] = NoJob]
            /\ wver' = [wver EXCEPT ![w] = 0]
            /\ wtot' = [wtot EXCEPT ![w] = <<0, 0>>]
    /\ UNCHANGED <<pckgs, jobs, jobsClosed, doneClosed, mpc, mq, inserts, failed>>

\* part_000:102-106  the panic of a job, its deferred send done, ends the
\* process, whatever the other routines are doing
Crash(w) ==
    /\ ~crashed
    /\ wpc[w] = "panicking"
    /\ crashed' = TRUE
    /\ UNCHANGED <<pckgs, jobs, jobsClosed, doneClosed, mpc, mq, mi, totals, wpc,
                   wjob, wver, wtot, inserts, reported, completed, failed>>

\* part_000:136,142-148  the collector's loop ends: close(done), "Done."
CloseDone ==
    /\ ~crashed
    /\ mpc = "collect"
    /\ mi >= ToCollect
    /\ doneClosed' = TRUE
    /\ mpc' = "done"
    /\ UNCHANGED <<pckgs, jobs, jobsClosed, mq, mi, totals, wpc, wjob,
                   wver, wtot, inserts, reported, completed, failed, crashed>>

PckgLists == UNION {[1..n -> PckgNames] : n \in 0..MaxPckgs}

InitDisk ==
    /\ BulkIdle
    /\ PubIdle
    /\ KVFIdle
    /\ AggIdle
    /\ ParseIdle
    /\ ScratchIdle
    /\ pckgs \in PckgLists
    /\ jobs = <<>> /\ jobsClosed = FALSE /\ doneClosed = FALSE
    /\ mpc = "enqueue" /\ mq = 0 /\ mi = 0 /\ totals = <<0, 0>>
    /\ wpc = [w \in Workers |-> "idle"]
    /\ wjob = [w \in Workers |-> NoJob]
    /\ wver = [w \in Workers |-> 0]
    /\ wtot = [w \in Workers |-> <<0, 0>>]
    /\ inserts = [j \in 1..Len(pckgs) |-> <<>>]
    /\ reported = [j \in 1..Len(pckgs) |-> 0]
    /\ completed = [j \in 1..Len(pckgs) |-> <<>>]
    /\ failed = [j \in 1..Len(pckgs) |-> Nil]
    /\ crashed = FALSE

NextDisk ==
    \/ Enqueue /\ UNCHANGED <<bulkVars, pubVars, kvfVars, aggVars, parseVars, scratchVars>>
    \/ CloseJobs /\ UNCHANGED <<bulkVars, pubVars, kvfVars, aggVars, parseVars, scratchVars>>
    \/ CloseDone /\ UNCHANGED <<bulkVars, pubVars, kvfVars, aggVars, parseVars, scratchVars>>
    \/ \E w \in Workers : TakeJob(w) /\ UNCHANGED <<bulkVars, pubVars, kvfVars, aggVars, parseVars, scratchVars>>
    \/ \E w \in Workers : WorkerExit(w) /\ UNCHANGED <<bulkVars, pubVars, kvfVars, aggVars, parseVars, scratchVars>>
    \/ \E w \in Workers : GetPackage(w) /\ UNCHANGED <<bulkVars, pubVars, kvfVars, aggVars, parseVars, scratchVars>>
    \/ \E w \in Workers : Versions(w) /\ UNCHANGED <<bulkVars, pubVars, kvfVars, aggVars, parseVars, scratchVars>>
    \/ \E w \in Workers : InsertStart(w) /\ UNCHANGED <<bulkVars, pubVars, kvfVars, aggVars, parseVars, scratchVars>>
    \/ \E w \in Workers : InsertReturn(w) /\ UNCHANGED <<bulkVars, pubVars, kvfVars, aggVars, parseVars, scratchVars>>
    \/ \E w \in Workers : VersionsDone(w) /\ UNCHANGED <<bulkVars, pubVars, kvfVars, aggVars, parseVars, scratchVars>>
    \/ \E w \in Workers : Deliver(w) /\ UNCHANGED <<bulkVars, pubVars, kvfVars, aggVars, parseVars, scratchVars>>
    \/ \E w \in Workers : Crash(w) /\ UNCHANGED <<bulkVars, pubVars, kvfVars, aggVars, parseVars, scratchVars>>

SpecDisk == InitDisk /\ [][NextDisk]_vars

\* the scheduler lets a routine that can take a step take one in the end
SpecDiskFair == SpecDisk /\ WF_vars(NextDisk)

-----------------------------------------------------------------------------
(* Properties of InsertFromDisk. *)

Jobs == 1..Len(pckgs)

\* every version of the job's package has been inserted, without an error
FullyInserted(j) ==
    /\ Len(inserts[j]) = Len(VersionsOf(pckgs[j]))
    /\ \A k \in 1..Len(inserts[j]) : inserts[j][k].err = Nil

\* C8: InsertFromDisk completes only after every queued package has
\* reported exactly one result: none reports twice, and at "Done." the
\* collector has received len(pckgs) results, one of each job.
C8_OneResultPerJob ==
    /\ \A j \in Jobs : reported[j] <= 1
    /\ mpc = "done" => /\ \A j \in Jobs : reported[j] = 1
                       /\ mi = Len(pckgs)

\* a run over more packages than workers has completed
C8_Witness ==
    /\ mpc = "done"
    /\ Len(pckgs) > NumWorkers

\* C9: a failed package (failed lookup, failed insert) stops nothing else:
\* no worker leaves the pool while jobs may still come, the run is never
\* stuck after a failure, and at "Done." every job has been reported and
\* every job without a failure of its own went through all its versions.
C9_FailureDoesNotAbort ==
    /\ ~crashed =>
          \A w \in Workers : wpc[w] = "exit" => jobsClosed /\ jobs = <<>>
    /\ (~crashed /\ mpc # "done" /\ \E j \in Jobs : failed[j] # Nil)
          => ENABLED NextDisk
    /\ mpc = "done" =>
          \A j \in Jobs : /\ reported[j] = 1
                          /\ failed[j] = Nil => FullyInserted(j)

\* a completed run in which one package failed at the lookup, one at an
\* insert, and a third went through all its versions
C9_Witness ==
    /\ mpc = "done"
    /\ \E j \in Jobs : failed[j] = "readerr"
    /\ \E j \in Jobs : failed[j] = "inserterr"
    /\ \E j \in Jobs : /\ failed[j] = Nil
                       /\ Len(inserts[j]) = MaxVersions
                       /\ FullyInserted(j)

\* C10: within one job the versions are inserted in order; a failed insert
\* is the job's last (no later version is started), the versions before it
\* were inserted without error, and a job's inserts stop short only on a
\* failure of its own.
C10_FailedVersionEndsJob ==
    \A j \in Jobs :
        LET s == inserts[j]
            vs == VersionsOf(pckgs[j])
        IN  /\ Len(s) <= Len(vs)
            /\ \A k \in 1..Len(s) : s[k].version = vs[k]
            /\ \A k \in 1..(Len(s) - 1) : s[k].err = Nil
            /\ failed[j] = "inserterr" =>
                  s # <<>> /\ s[Len(s)].err = "inserterr"
            /\ (reported[j] = 1 /\ failed[j] = Nil) => FullyInserted(j)

\* one job failed at its first version of two and was reported, another job
\* inserted both versions
C10_Witness ==
    /\ \E j \in Jobs : /\ Len(VersionsOf(pckgs[j])) >= 2
                       /\ Len(inserts[j]) = 1
                       /\ inserts[j][1].err = "inserterr"
                       /\ reported[j] = 1
    /\ \E j \in Jobs : Len(inserts[j]) >= 2 /\ FullyInserted(j)
    /\ mpc = "done"

\* part_000:105,144-148  how the run ends: by the panic of a job, or by
\* InsertFromDisk returning after "Done." and the summary
ExitStatus ==
    IF crashed THEN "panic" ELSE IF mpc = "done" THEN "returned" ELSE "running"

\* the sum of the counts the InsertNewVersionToKV calls of a job returned
RECURSIVE SumKeys(_)
SumKeys(s) == IF s = <<>> THEN <<0, 0>> ELSE Add2(s[1].keys, SumKeys(Tail(s)))

RECURSIVE SumJobs(_)
SumJobs(j) == IF j = 0 THEN <<0, 0>> ELSE Add2(SumKeys(inserts[j]), SumJobs(j - 1))

\* the outcome shows a failure: the run does not return normally, or a
\* result the collector received is marked with an error
FailureShown ==
    \/ ExitStatus # "returned"
    \/ \E j \in Jobs : \E k \in 1..Len(completed[j]) : "err" \in DOMAIN completed[j][k]

\* C16 as stated: at the end of the run the outcome (results, summary,
\* exit) shows a failure exactly when some package failed.
C16_OutcomeReflectsFailures ==
    mpc = "done" => (FailureShown <=> \E j \in Jobs : failed[j] # Nil)

\* C16, amended: every package, failed or not, is reported by one result of
\* its name and its theoretical counts (those of a failed insert included)
\* and the totals are their sum; a failed lookup or insert changes neither
\* the results nor the way the run ends (only the panic of a job ends the
\* process); the failure is known from the message logged when it happens:
\* a reported package that did not go through all its versions has one, and
\* the message of a failed insert is that of the last version tried.
C16_FailuresLoggedOnly ==
    /\ \A j \in Jobs :
          /\ \A k \in 1..Len(completed[j]) :
                completed[j][k] = [Name |-> pckgs[j],
                                   TheoreticalSRIKeys |-> SumKeys(inserts[j])[1],
                                   TheoreticalFileKeys |-> SumKeys(inserts[j])[2]]
          /\ (reported[j] = 1 /\ ~FullyInserted(j)) => failed[j] # Nil
          /\ failed[j] = "inserterr" <=>
                (inserts[j] # <<>> /\ inserts[j][Len(inserts[j])].err = "inserterr")
          /\ failed[j] = "readerr" => inserts[j] = <<>>
    /\ crashed => \E j \in Jobs : failed[j] = "panic"
    /\ mpc = "done" =>
          /\ \A j \in Jobs : Len(completed[j]) = 1
          /\ totals = SumJobs(Len(pckgs))

\* the run over three packages has returned: one failed on its second
\* version, two went through all their versions, all three were reported
C16_Witness ==
    /\ mpc = "done" /\ ExitStatus = "returned"
    /\ Len(pckgs) = 3
    /\ \E j \in Jobs :
          /\ Len(inserts[j]) = 2
          /\ inserts[j][1].err = Nil /\ inserts[j][2].err = "inserterr"
          /\ failed[j] = "inserterr"
          /\ \A i \in Jobs \ {j} : failed[i] = Nil /\ FullyInserted(i)
    /\ \A j \in Jobs : Len(completed[j]) = 1

\* the inserts in flight for the package of a name: <<job, position>>
InFlight(name) ==
    {jk \in UNION {{<<j, k>> : k \in 1..Len(inserts[j])} : j \in Jobs} :
        pckgs[jk[1]] = name /\ inserts[jk[1]][jk[2]].err = "running"}

DistinctNames == \A i, j \in Jobs : i # j => pckgs[i] # pckgs[j]

\* C22: with pairwise distinct package names, at most one insert of a
\* version is in flight for a package at any moment, it is the one of the
\* worker that holds the package's job, and the insert of the next version
\* starts only after the one before has returned.
C22_VersionsSequential ==
    DistinctNames =>
        /\ \A name \in PckgNames : Cardinality(InFlight(name)) <= 1
        /\ \A j \in Jobs : \A k \in 1..Len(inserts[j]) :
              inserts[j][k].err = "running" =>
                 /\ k = Len(inserts[j])
                 /\ \E w \in Workers : wpc[w] = "insert" /\ JobOf(w) = j
        /\ \A v, w \in Workers :
              (v # w /\ wpc[v] = "insert" /\ wpc[w] = "insert")
                  => wjob[v].Name # wjob[w].Name

\* two workers insert at the same moment, one of them the second version
\* of its package
C22_Witness ==
    /\ DistinctNames
    /\ \E v, w \in Workers :
          /\ v # w /\ wpc[v] = "insert" /\ wpc[w] = "insert"
          /\ wver[w] = 2
          /\ inserts[JobOf(w)][1].err = Nil

\* the sum of the counts of the results the collector has received
RECURSIVE SumResults(_)
SumResults(s) ==
    IF s = <<>> THEN <<0, 0>>
    ELSE Add2(<<s[1].TheoreticalSRIKeys, s[1].TheoreticalFileKeys>>,
              SumResults(Tail(s)))

RECURSIVE SumCompleted(_)
SumCompleted(j) ==
    IF j = 0 THEN <<0, 0>> ELSE Add2(SumResults(completed[j]), SumCompleted(j - 1))

\* the versions of job j the worker went through: all of them up to the
\* first failed insert, that one included
AttemptedAsClaimed(j) ==
    LET s == inserts[j]
    IN  /\ \A k \in 1..Len(s) - 1 : s[k].err = Nil
        /\ Len(s) < Len(VersionsOf(pckgs[j]))
              => failed[j] # Nil
                 /\ (s # <<>> => s[Len(s)].err # Nil)

\* a step that changes the totals is the collector receiving a result, and
\* it adds the counts of that result
TotalsStep ==
    totals' # totals =>
        \E j \in Jobs :
            /\ Len(completed'[j]) = Len(completed[j]) + 1
            /\ \A i \in Jobs \ {j} : completed'[i] = completed[i]
            /\ totals' = Add2(totals, SumResults(<<completed'[j][Len(completed'[j])]>>))
            /\ mi' = mi + 1

\* C26: in every interleaving the totals are the sum of the counts of the
\* results received so far; a package's counts are those of the versions it
\* attempted, the failed one included and the ones after it left out, kept
\* by the worker of the job until the result is sent; at the end the totals
\* are the sum over all packages; the totals change only when the collector
\* receives a result.
C26_TotalsSumOfAttempted ==
    /\ [](/\ totals = SumCompleted(Len(pckgs))
          /\ \A w \in Workers :
                wpc[w] \in {"loop", "insert", "send"}
                    => wtot[w] = SumKeys(inserts[JobOf(w)])
          /\ \A j \in Jobs : completed[j] # <<>>
                => SumResults(completed[j]) = SumKeys(inserts[j])
          /\ mpc = "done" =>
                /\ totals = SumJobs(Len(pckgs))
                /\ \A j \in Jobs : AttemptedAsClaimed(j))
    /\ [][TotalsStep]_vars

\* the run has ended with a package that failed on its first version of two
\* and a package that went through both of its versions
C26_Witness ==
    /\ mpc = "done"
    /\ \E i, j \in Jobs :
          /\ i # j
          /\ Len(inserts[i]) = 1 /\ inserts[i][1].err = "inserterr"
          /\ Len(VersionsOf(pckgs[i])) = 2
          /\ Len(inserts[j]) = 2 /\ inserts[j][2].err = Nil
    /\ totals = <<3, 6>>

\* C27 as stated: whatever the number of packages, when every insert of a
\* version returns, the main routine gets through the enqueuing and the
\* collecting, reaches "Done.", and no worker sends on the closed channel.
C27_EventuallyDone ==
    /\ <>(mpc = "done")
    /\ [](\A w \in Workers : wpc[w] = "send" => ~doneClosed)

\* what holds instead: the run reaches "Done." unless a job panicked on the
\* list of its versions; it never blocks with a step still to take, and no
\* worker sends on the closed channel
C27_DoneUnlessPanic ==
    /\ <>(mpc = "done" \/ crashed)
    /\ [](crashed => \E j \in Jobs : failed[j] = "panic")
    /\ []((\A j \in Jobs : failed[j] # "panic") /\ mpc # "done" => ENABLED NextDisk)
    /\ [](\A w \in Workers : wpc[w] = "send" => ~doneClosed)

-----------------------------------------------------------------------------
(* Properties of the order and the namespaces of one publish with SRIs. *)

\* C28: with the SRI and the file writes both enabled, every write call to
\* the SRI namespace comes before every write call to the files namespace,
\* and after a failed SRI write no call goes to the files namespace or to
\* the versions namespace; the error returned is that of the SRI write.
C28_SRIsBeforeFilesAndAbort ==
    (~srisOnly /\ ~filesOnly /\ ~noPush) =>
        /\ \A i \in SRICalls : \A j \in FileCalls \cup VersionCalls : i < j
        /\ \A i \in SRICalls :
              apiCalls[i].err # Nil =>
                 /\ FileCalls = {} /\ VersionCalls = {}
                 /\ i = Len(apiCalls)
                 /\ Returned => uret.err = apiCalls[i].err
        /\ FileCalls # {} => upc \notin {"start", "built", "sriWait"}

\* a publish that ended on its second SRI batch, which failed
C28_Witness ==
    /\ ~srisOnly /\ ~filesOnly /\ ~noPush
    /\ upc = "done"
    /\ Cardinality(SRICalls) = 2
    /\ apiCalls[2].err # Nil
    /\ FileCalls = {}

\* a publish that wrote two SRI batches, the files and the manifest
C28_WitnessAllWritten ==
    /\ ~srisOnly /\ ~filesOnly /\ ~noPush
    /\ upc = "done" /\ uret.err = Nil
    /\ Cardinality(SRICalls) = 2
    /\ FileCalls # {} /\ VersionCalls # {}

\* C29 as stated: with pushing enabled, srisOnly keeps every write call
\* from the files namespace and filesOnly keeps every write call from the
\* SRI namespace, in every combination of the flags.
C29_ModesConfineWrites ==
    ~noPush =>
        /\ srisOnly => FileCalls = {}
        /\ filesOnly => SRICalls = {}

\* what holds instead: filesOnly keeps every call from the SRI namespace;
\* srisOnly keeps every request from the files namespace, and every call
\* when filesOnly is not set as well; with both set one call with no entry
\* goes to the files namespace
C29_ModesConfineRequests ==
    /\ filesOnly => SRICalls = {}
    /\ (srisOnly /\ ~filesOnly) => FileCalls = {}
    /\ srisOnly => \A i \in FileCalls : apiCalls[i].b = <<>>
    /\ (srisOnly /\ filesOnly /\ ~noPush /\ Returned /\ RequestsBuilt)
          => Cardinality(FileCalls) = 1

-----------------------------------------------------------------------------
(* Properties of the keys of one version's requests. *)

\* C19: the file write requests built from a version directory (files of
\* pairwise distinct paths) have pairwise distinct keys, across the files,
\* their .br and .gz entries and the uncompressed entries.
C19_FileKeysDistinct ==
    FileRequestsBuilt =>
        /\ \A i, j \in 1..Len(disk) : i # j => disk[i].path # disk[j].path
        /\ \A i, j \in 1..Len(kvs) : i # j => kvs[i].key # kvs[j].key

\* a compressed file next to an uncompressed one: three requests
C19_Witness ==
    /\ FileRequestsBuilt
    /\ Len(kvs) = 3
    /\ \E i \in 1..Len(kvs) : kvs[i].value.enc = "raw"
    /\ \E i \in 1..Len(kvs) : kvs[i].value.enc = "br"

\* the SRI requests built for the file of path p
SRIRequestsOf(p) == {i \in 1..Len(sriReqs) : sriReqs[i].name = p}

\* the unsuffixed keys of the files an SRI is calculated for
SRIKeys == {FileKey(f.path) : f \in SRIFiles}

\* C20: every .js or .css file that is not ignored gets exactly one SRI
\* request, under its unsuffixed key <pkg>/<version>/<path> and with no
\* value, whether or not file requests are built (srisOnly); no other file
\* gets one.  SRI requests go to the SRI namespace only, and nothing else
\* goes there; the files namespace never gets an unsuffixed key of such a file.
C20_OneSRIRequestPerEligibleFile ==
    /\ (upc # "start" /\ RequestsBuilt) =>
          /\ \A f \in SRIFiles :
                /\ Cardinality(SRIRequestsOf(f.path)) = 1
                /\ \A i \in SRIRequestsOf(f.path) :
                      /\ sriReqs[i].key = FileKey(f.path)
                      /\ sriReqs[i].value.len = 0
                      /\ sriReqs[i].meta = SRIMetaLen
          /\ \A i \in 1..Len(sriReqs) :
                \E f \in SRIFiles : sriReqs[i].name = f.path
          /\ \A i \in 1..Len(fileReqs) : fileReqs[i].key \notin SRIKeys
    /\ \A i \in 1..Len(apiCalls) : \A k \in 1..Len(apiCalls[i].b) :
          LET pair == apiCalls[i].b[k]
          IN  /\ apiCalls[i].ns = srisNamespaceID
                    => /\ pair.Key \in SRIKeys
                       /\ pair.Value.len = 0
                       /\ pair.Metadata = SRIMetaLen
              /\ apiCalls[i].ns # srisNamespaceID
                    => /\ pair.Key \notin SRIKeys
                       /\ pair.Value.enc # "none"

\* a push of a version with a script, a stylesheet and a font: the SRIs and
\* the files have both been written
C20_Witness ==
    /\ upc = "done"
    /\ ~srisOnly /\ ~filesOnly /\ ~noPush
    /\ Cardinality(SRIFiles) = 2
    /\ \E f \in Range(disk) : Ext(f.path) = ".woff2"
    /\ \E i \in SRICalls : apiCalls[i].err = Nil /\ Len(apiCalls[i].b) = 2
    /\ \E i \in FileCalls : apiCalls[i].err = Nil /\ apiCalls[i].b # <<>>

\* the same version with srisOnly: SRI requests without file requests
C20_WitnessSRIsOnly ==
    /\ upc = "done"
    /\ srisOnly /\ ~noPush
    /\ Cardinality(SRIFiles) = 2
    /\ fileReqs = <<>>
    /\ \E i \in SRICalls : apiCalls[i].err = Nil /\ Len(apiCalls[i].b) = 2

-----------------------------------------------------------------------------
(* Properties of the aggregate rebuild. *)

\* the successful writes to the aggregated-metadata namespace, in order
AggregateWrites ==
    SelectSeq(apiCalls, LAMBDA c : c.ns = aggregatedMetadataNamespaceID
                                      /\ c.err = Nil)

\* the assets the store holds for the package: one asset a version key of
\* the package, in the order of the listing, with the version's name and the
\* files of its manifest
RECURSIVE StoreAssets(_)
StoreAssets(i) ==
    IF i = 0 THEN <<>>
    ELSE LET k == VersionKeys[i]
         IN  IF k \in DOMAIN kvVersions /\ k[1] = pckgName
             THEN Append(StoreAssets(i - 1),
                         [Version |-> <<k[3]>>, Files |-> kvVersions[k].of])
             ELSE StoreAssets(i - 1)

-----------------------------------------------------------------------------
(* Properties of ReadNonHumanJSONBytes. *)

\* the input got through the schema and json.Unmarshal
SchemaValid == doc.json /\ doc.valid /\ doc.unmarshals

\* exactly one of `author` and `authors` is set
OneSidedAuthor == doc.Authors.nil # doc.Author.nil

\* C24 as stated: schema-valid input with exactly one of `author` and
\* `authors` set gives a non-nil error and no package, and the function
\* never returns a nil package together with a nil error.
C24_OneSidedAuthorRejected ==
    rpc = "done" =>
        /\ (SchemaValid /\ OneSidedAuthor) => rret.pckg.nil /\ rret.err # NoError
        /\ ~(rret.pckg.nil /\ rret.err = NoError)

\* what holds instead: a nil package with a nil error is returned exactly
\* for the one-sided inputs; every other rejected input has an error, and a
\* package is returned only with `author` being the string of `authors`
C24_NilNilOnlyWhenOneSided ==
    rpc = "done" =>
        /\ (rret.pckg.nil /\ rret.err = NoError) <=> (SchemaValid /\ OneSidedAuthor)
        /\ ~rret.pckg.nil =>
              /\ rret.err = NoError
              /\ SchemaValid
              /\ rret.pckg = PackageOf(doc)
              /\ ~doc.Authors.nil => doc.Author.str = parseAuthor(doc.Authors.list)

-----------------------------------------------------------------------------
(* Properties of the routines of InsertAggregateMetadataFromScratch. *)

NoPanic == \A g \in Routines : ~gpanic[g]

\* how often a name is in a list
Count(name, s) == Cardinality({i \in 1..Len(s) : s[i] = name})

\* C30: when no step panics the run ends at "Done." and is never blocked
\* before; every package's routine sends its name once at most, also after
\* a failed lookup, and when the wait group lets the main routine go on every
\* routine has sent once and ended, and the progress routine has received
\* exactly len(pckgs) names, those of the packages, and ended.
C30_ScratchTerminates ==
    /\ <>(spc = "done" \/ ~NoPanic)
    /\ [](/\ \A g \in Routines : gsent[g] <= 1
          /\ (NoPanic /\ spc # "done") => ENABLED NextScratch
          /\ spc = "done" =>
                /\ \A g \in Routines :
                      gsent[g] = 1 /\ gpc[g] \in {"exit", "panicking"}
                /\ cpc = "exit"
                /\ ci = Len(scratchPckgs)
                /\ Len(received) = Len(scratchPckgs)
                /\ \A name \in Range(scratchPckgs) :
                      Count(name, received) = Count(name, scratchPckgs))

\* the run over three packages has ended at "Done." without a panic, one
\* lookup having failed, and the names came in another order than the list's
C30_Witness ==
    /\ spc = "done"
    /\ NoPanic
    /\ Len(scratchPckgs) = 3
    /\ \E g \in Routines : glookup[g] = "err" /\ gsent[g] = 1
    /\ \E g \in Routines : glookup[g] = "ok"
    /\ received # scratchPckgs

=============================================================================
